---- MODULE Spec2Model ----
(***************************************************************************)
(* A model of the finsor-data service's orchestration core:                *)
(*   - the per-client rate limiter       (src/src/middleware/rateLimiter.ts)*)
(*   - the ingestion scheduler, its six pipelines and the cache service    *)
(*     they share                  (src/src/services/dataSourceService.ts) *)
(*   - the operations of the cache service and its connection lifecycle    *)
(*                                 (src/src/services/dataSourceService.ts) *)
(*   - the where clause VectorService.query compiles from its options      *)
(*                                     (src/src/services/vectorService.ts) *)
(* Each component has its own specification over the module's variables;   *)
(* a specification leaves the variables of the other components unchanged. *)
(***************************************************************************)
EXTENDS Integers, Sequences, FiniteSets, TLC

VARIABLES
  \* ---- RateLimiter (rateLimiter.ts) ----
  windowMs,      \* this.windowMs
  maxRequests,   \* this.maxRequests
  store,         \* this.store : key -> {count, resetTime}, or NoEntry
  now,           \* Date.now()
  rlRes,         \* the response of the latest middleware call
  rlReqs,        \* history: number of middleware calls so far
  rlLog,         \* history: per key, the times of the admitted requests
                 \*          since the store was last reset()
  sweeps,        \* history: the cleanup() runs so far, [at, removed]
  noSweep        \* history: the store and the latest response of a limiter
                 \*          given the same calls and no cleanup() run

VARIABLES
  \* ---- SchedulerService and CacheService (dataSourceService.ts) ----
  hasDestroy,     \* whether the installed node-cron task has destroy()
  scheduledTasks, \* this.scheduledTasks : name -> trigger id (0: no entry)
  triggers,       \* every cron task created so far, by id: [name, status]
  nStarts,        \* history: number of start() calls so far
  lastCall,       \* history: the latest start/stop/runOnce call and its error
  runs,           \* the pipeline invocations of ticks and of runOnce(name)
  allPc,          \* the runOnce("all") call: "idle", "waiting", "returned"
  branches,       \* the six invocations fanned out by ingestAll
  redis,          \* the backing store: key -> [value, ttl], or Absent
  isConnected     \* CacheService.isConnected

VARIABLES
  \* ---- CacheService operations and the redis client (dataSourceService.ts) ----
  emitsDisconnect, \* whether the installed redis client emits 'disconnect'
  clientOpen,      \* the client's socket is open (connect() resolved)
  op               \* the cache operation in flight, or OpIdle

VARIABLES
  \* ---- VectorService.query (vectorService.ts) ----
  options,       \* the options argument of the latest query
  whereClause,   \* the where clause it built
  prevWhere,     \* history: the where clause the same options gave before
  timeLogged,    \* the bounds printed by the "temporarily disabled" log line
  nQueries       \* history: number of queries so far

VARIABLES
  \* ---- the API router and DataController.query (routes/index.ts,
  \*      controllers/dataController.ts) ----
  routed,        \* the latest request dispatched by the router
  api,           \* the POST /query request in flight, or ApiIdle
  memo,          \* the "query:..." keys of the backing store
  nApi           \* history: number of POST /query requests so far

VARIABLES
  \* ---- observations ----
  rlStats,       \* what the latest RateLimiter.getStats() returned
  tickClock      \* the clock reading of the latest stocks callback

obsVars == <<rlStats, tickClock>>
rlVars == <<windowMs, maxRequests, store, now, rlRes, rlReqs, rlLog, sweeps, noSweep>>
apiVars == <<routed, api, memo, nApi>>
regVars == <<hasDestroy, scheduledTasks, triggers, nStarts>>
cacheVars == <<redis, isConnected>>
schedVars == <<regVars, lastCall, runs, allPc, branches, cacheVars>>
opVars == <<emitsDisconnect, clientOpen, op>>
qVars == <<options, whereClause, prevWhere, timeLogged, nQueries>>
vars == <<rlVars, schedVars, opVars, qVars, apiVars, obsVars>>

(***************************************************************************)
(*                              RATE LIMITER                               *)
(***************************************************************************)

\* Bounds of the rate-limiter model.
MaxWindow == 2      \* windowMs ranges over 1..MaxWindow
MaxCap == 2         \* maxRequests ranges over 0..MaxCap
MaxTime == 3        \* Date.now() ranges over 0..MaxTime
MaxReqs == 4        \* at most MaxReqs middleware calls in one behaviour
MaxSweeps == 2      \* at most MaxSweeps cleanup() runs in one behaviour

\* The fingerprints getKey can return: `${ip}:${userAgent.slice(0, 50)}`.
Keys == {"ipA:ua", "ipB:ua"}

NoEntry == [count |-> -1, resetTime |-> -1]   \* !this.store[key]
NoRes == [status |-> 0, key |-> "", remaining |-> 0, reset |-> 0, retryAfter |-> 0]

\* Math.ceil(a / b) for a >= 0, b > 0
CeilDiv(a, b) == (a + b - 1) \div b

\* Lines 31-45: get or create the entry, then reset it if its window expired.
CurrentEntry(st, key, t, w) ==
  LET e0 == IF st[key] = NoEntry THEN [count |-> 0, resetTime |-> t + w]
                                 ELSE st[key]
  IN IF t >= e0.resetTime THEN [count |-> 0, resetTime |-> t + w] ELSE e0

\* A limiter whose limit check is off by one (count > maxRequests).
MiddlewareOffByOne(st, key, t, w, cap) ==
  LET e == CurrentEntry(st, key, t, w)
  IN IF e.count > cap
       THEN [store |-> [st EXCEPT ![key] = e],
             res |-> [status |-> 429, key |-> key, remaining |-> 0,
                      reset |-> e.resetTime,
                      retryAfter |-> CeilDiv(e.resetTime - t, 1000)]]
       ELSE [store |-> [st EXCEPT ![key] = [e EXCEPT !.count = e.count + 1]],
             res |-> [status |-> 200, key |-> key,
                      remaining |-> cap - (e.count + 1),
                      reset |-> e.resetTime, retryAfter |-> 0]]

\* A limiter whose window test is strict (now > resetTime).
MiddlewareStrictExpiry(st, key, t, w, cap) ==
  LET e0 == IF st[key] = NoEntry THEN [count |-> 0, resetTime |-> t + w]
                                 ELSE st[key]
      e == IF t > e0.resetTime THEN [count |-> 0, resetTime |-> t + w] ELSE e0
  IN IF e.count >= cap
       THEN [store |-> [st EXCEPT ![key] = e],
             res |-> [status |-> 429, key |-> key, remaining |-> 0,
                      reset |-> e.resetTime,
                      retryAfter |-> CeilDiv(e.resetTime - t, 1000)]]
       ELSE [store |-> [st EXCEPT ![key] = [e EXCEPT !.count = e.count + 1]],
             res |-> [status |-> 200, key |-> key,
                      remaining |-> cap - (e.count + 1),
                      reset |-> e.resetTime, retryAfter |-> 0]]

\* A limiter whose denied call starts a new window.
MiddlewareRenewsOnDeny(st, key, t, w, cap) ==
  LET e == CurrentEntry(st, key, t, w)
  IN IF e.count >= cap
       THEN [store |-> [st EXCEPT ![key] = [e EXCEPT !.resetTime = t + w]],
             res |-> [status |-> 429, key |-> key, remaining |-> 0,
                      reset |-> e.resetTime,
                      retryAfter |-> CeilDiv(e.resetTime - t, 1000)]]
       ELSE [store |-> [st EXCEPT ![key] = [e EXCEPT !.count = e.count + 1]],
             res |-> [status |-> 200, key |-> key,
                      remaining |-> cap - (e.count + 1),
                      reset |-> e.resetTime, retryAfter |-> 0]]

\* A limiter that, on each call, also drops the expired entries of the other
\* fingerprints.
MiddlewarePurgesOthers(st, key, t, w, cap) ==
  LET e == CurrentEntry(st, key, t, w)
      purged == [j \in DOMAIN st |->
                   IF st[j] # NoEntry /\ t >= st[j].resetTime THEN NoEntry
                                                              ELSE st[j]]
  IN IF e.count >= cap
       THEN [store |-> [purged EXCEPT ![key] = e],
             res |-> [status |-> 429, key |-> key, remaining |-> 0,
                      reset |-> e.resetTime,
                      retryAfter |-> CeilDiv(e.resetTime - t, 1000)]]
       ELSE [store |-> [purged EXCEPT ![key] = [e EXCEPT !.count = e.count + 1]],
             res |-> [status |-> 200, key |-> key,
                      remaining |-> cap - (e.count + 1),
                      reset |-> e.resetTime, retryAfter |-> 0]]

\* RateLimiter.middleware, lines 27-74: the store after the call and the
\* response (429 with retryAfter, or next() with the X-RateLimit headers).
Middleware(st, key, t, w, cap) ==
  LET e == CurrentEntry(st, key, t, w)
  IN IF e.count >= cap
       THEN [store |-> [st EXCEPT ![key] = e],
             res |-> [status |-> 429, key |-> key, remaining |-> 0,
                      reset |-> e.resetTime,
                      retryAfter |-> CeilDiv(e.resetTime - t, 1000)]]
       ELSE [store |-> [st EXCEPT ![key] = [e EXCEPT !.count = e.count + 1]],
             res |-> [status |-> 200, key |-> key,
                      remaining |-> cap - (e.count + 1),
                      reset |-> e.resetTime, retryAfter |-> 0]]

\* A cleanup that empties the store.
CleanupStoreAll(st, t) == [k \in DOMAIN st |-> NoEntry]

\* A cleanup that removes every expired entry, whatever its count.
CleanupStoreExpired(st, t) ==
  [k \in DOMAIN st |->
     IF st[k] # NoEntry /\ t >= st[k].resetTime THEN NoEntry ELSE st[k]]

\* RateLimiter.cleanup, lines 85-99.
CleanupStore(st, t) ==
  [k \in DOMAIN st |->
     IF st[k] # NoEntry /\ t >= st[k].resetTime /\ st[k].count = 0
       THEN NoEntry ELSE st[k]]

\* The constructor, lines 17-25, with its two parameters.
RLInit ==
  /\ windowMs \in 1..MaxWindow
  /\ maxRequests \in 0..MaxCap
  /\ store = [k \in Keys |-> NoEntry]
  /\ now = 0
  /\ rlRes = NoRes
  /\ rlReqs = 0
  /\ rlLog = [k \in Keys |-> <<>>]
  /\ sweeps = <<>>
  /\ noSweep = [store |-> [k \in Keys |-> NoEntry], res |-> NoRes]

\* One request of fingerprint key passes through the middleware.  The handler
\* is synchronous: it runs to completion before any other callback.
Admit(key) ==
  /\ rlReqs < MaxReqs
  /\ LET r == Middleware(store, key, now, windowMs, maxRequests)
     IN /\ store' = r.store
        /\ rlRes' = r.res
        /\ rlLog' = IF r.res.status = 200
                      THEN [rlLog EXCEPT ![key] = Append(@, now)]
                      ELSE rlLog
  /\ rlReqs' = rlReqs + 1
  /\ LET n == Middleware(noSweep.store, key, now, windowMs, maxRequests)
     IN noSweep' = [store |-> n.store, res |-> n.res]
  /\ UNCHANGED <<windowMs, maxRequests, now, sweeps, schedVars, opVars, qVars, apiVars, obsVars>>

\* The setInterval callback of the constructor, lines 22-24.
Sweep ==
  /\ Len(sweeps) < MaxSweeps
  /\ store' = CleanupStore(store, now)
  /\ sweeps' = Append(sweeps,
                      [at |-> now,
                       removed |-> {k \in Keys : store[k] # NoEntry
                                      /\ CleanupStore(store, now)[k] = NoEntry}])
  /\ UNCHANGED <<windowMs, maxRequests, now, rlRes, rlReqs, rlLog, noSweep, schedVars, opVars, qVars, apiVars, obsVars>>

\* RateLimiter.reset, lines 120-123.
ResetStore ==
  /\ store' = [k \in Keys |-> NoEntry]
  /\ rlLog' = [k \in Keys |-> <<>>]
  /\ noSweep' = [noSweep EXCEPT !.store = [k \in Keys |-> NoEntry]]
  /\ UNCHANGED <<windowMs, maxRequests, now, rlRes, rlReqs, sweeps, schedVars, opVars, qVars, apiVars, obsVars>>

NoStats == [totalKeys |-> -1, windowMs |-> -1, maxRequests |-> -1,
            activeEntries |-> -1]

\* A getStats that counts an entry as active up to and including resetTime.
GetStatsInclusive(st, t, w, cap) ==
  [totalKeys |-> Cardinality({k \in DOMAIN st : st[k] # NoEntry}),
   windowMs |-> w,
   maxRequests |-> cap,
   activeEntries |-> Cardinality({k \in DOMAIN st :
                                    st[k] # NoEntry /\ t <= st[k].resetTime})]

\* RateLimiter.getStats, lines 101-118.
GetStats(st, t, w, cap) ==
  [totalKeys |-> Cardinality({k \in DOMAIN st : st[k] # NoEntry}),
   windowMs |-> w,
   maxRequests |-> cap,
   activeEntries |-> Cardinality({k \in DOMAIN st :
                                    st[k] # NoEntry /\ t < st[k].resetTime})]

\* A call of getStats().
GetStatsCall ==
  /\ rlStats' = GetStats(store, now, windowMs, maxRequests)
  /\ UNCHANGED <<rlVars, tickClock, schedVars, opVars, qVars, apiVars>>

\* The clock advances.
Tick ==
  /\ now < MaxTime
  /\ now' = now + 1
  /\ UNCHANGED <<windowMs, maxRequests, store, rlRes, rlReqs, rlLog, sweeps, noSweep, schedVars, opVars, qVars, apiVars, obsVars>>

(***************************************************************************)
(*                              CACHE SERVICE                              *)
(***************************************************************************)

\* The six task names of SchedulerService.start, in registration order.
StartOrder == <<"news", "crypto", "stocks", "trends", "rates", "economic">>
TaskNames == {StartOrder[i] : i \in DOMAIN StartOrder}

\* Pipelines that all use one cache key.
CacheKeyShared(task) == "news_latest"

\* The cacheKey literal of each ingest method (lines 449, 471, 493, ...).
CacheKey(task) ==
  CASE task = "news" -> "news_latest"
    [] task = "crypto" -> "crypto_latest"
    [] task = "stocks" -> "stocks_latest"
    [] task = "trends" -> "trends_latest"
    [] task = "rates" -> "rates_latest"
    [] task = "economic" -> "economic_latest"

CacheKeys == {CacheKey(t) : t \in TaskNames}

\* config.cache.ttl, in seconds.
CacheTtl(task) ==
  CASE task = "news" -> 900
    [] task = "crypto" -> 300
    [] task = "stocks" -> 600
    [] task = "trends" -> 21600
    [] task = "rates" -> 604800
    [] task = "economic" -> 604800

Absent == [present |-> FALSE, value |-> "", ttl |-> 0]   \* no such key
Null == "<null>"                                         \* JavaScript null

\* JavaScript truthiness of a `string | null`.
Truthy(v) == v # Null /\ v # ""

\* CacheService.get with the rejection of client.get ignored.
CacheGetIgnoresError(sent, ioErr, entry) ==
  IF ~sent THEN Null
  ELSE IF entry.present THEN entry.value ELSE Null

\* CacheService.set that always uses client.set.
CacheSetNoExpiry(sent, ioErr, applied, key, value, ttlSeconds, db) ==
  LET written == [db EXCEPT ![key] =
                    [present |-> TRUE, value |-> value, ttl |-> 0]]
  IN IF ~sent THEN [ok |-> FALSE, db |-> db]
     ELSE IF ioErr THEN [ok |-> FALSE, db |-> IF applied THEN written ELSE db]
     ELSE [ok |-> TRUE, db |-> written]

\* CacheService.get, lines 674-692.  sent: isConnected was true at the call,
\* so client.get was issued; ioErr: client.get rejected; entry: the key's
\* entry in the backing store when the command is served.
CacheGet(sent, ioErr, entry) ==
  IF ~sent THEN Null
  ELSE IF ioErr THEN Null
  ELSE IF entry.present THEN entry.value ELSE Null

\* CacheService.set without the isConnected guard: the command is issued
\* whatever the connection state.
CacheSetWhileDown(sent, ioErr, applied, key, value, ttlSeconds, db) ==
  LET written == [db EXCEPT ![key] =
                    [present |-> TRUE, value |-> value,
                     ttl |-> IF ttlSeconds # <<>> /\ ttlSeconds[1] # 0
                               THEN ttlSeconds[1] ELSE 0]]
  IN IF ioErr THEN [ok |-> FALSE, db |-> IF applied THEN written ELSE db]
     ELSE [ok |-> TRUE, db |-> written]

\* The optional parameter ttlSeconds is <<>> when omitted and <<n>> when given;
\* `if (ttlSeconds)` (line 701) is false for undefined and for 0.
TtlTruthy(ttlSeconds) == ttlSeconds # <<>> /\ ttlSeconds[1] # 0

\* CacheService.set, lines 694-713: the result and the backing store after it.
\* client.setEx is used for a truthy ttl and client.set otherwise; an entry
\* with ttl 0 has no expiry.  A rejected command may or may not have been
\* applied by the server.
CacheSet(sent, ioErr, applied, key, value, ttlSeconds, db) ==
  LET written == [db EXCEPT ![key] =
                    [present |-> TRUE, value |-> value,
                     ttl |-> IF TtlTruthy(ttlSeconds) THEN ttlSeconds[1] ELSE 0]]
  IN IF ~sent THEN [ok |-> FALSE, db |-> db]
     ELSE IF ioErr THEN [ok |-> FALSE, db |-> IF applied THEN written ELSE db]
     ELSE [ok |-> TRUE, db |-> written]

(***************************************************************************)
(*                            INGESTION PIPELINES                          *)
(***************************************************************************)

Days == 0..6      \* Date.getDay(): 0 = Sunday, 6 = Saturday
Hours == 0..23    \* Date.getHours()

\* SchedulerService.isMarketHours, lines 594-610.
IsMarketHours(day, hour) ==
  IF day = 0 \/ day = 6 THEN FALSE
  ELSE IF hour < 9 \/ hour >= 16 THEN FALSE
  ELSE TRUE

\* The tasks whose scheduled callback consults a gate (lines 359-364).
Gated(task) == task = "stocks"

\* The gate of a task at a clock reading; an ungated task is always open.
GateAt(task, day, hour) == IF Gated(task) THEN IsMarketHours(day, hour) ELSE TRUE

SaturdayNoon == <<6, 12>>

\* The clock readings that matter to the dispatch of a task.
Clocks(task) == IF Gated(task) THEN Days \X Hours ELSE {<<1, 12>>}

\* One pipeline invocation.  pc is the await it is suspended at and sent
\* whether the cache command it awaits was issued to the backing store; hit
\* is the truthiness of `cached` and fetched the outcome of the fetch; the n*
\* fields count the calls it has made of cacheService.get, the fetch
\* collaborator, vectorService.addData and cacheService.set; thrown says that
\* the promise of the ingest method rejected, errLogged that logger.error
\* ran; gateOpen is the gate of the task at the clock reading of the dispatch.
IdleRun ==
  [task |-> "", kind |-> "", gateOpen |-> TRUE, pc |-> "idle", out |-> "",
   sent |-> FALSE, hit |-> FALSE, fetched |-> "",
   nGet |-> 0, nFetch |-> 0, nStore |-> 0, nSet |-> 0,
   thrown |-> FALSE, errLogged |-> FALSE]

\* ingestNews .. ingestEconomicData up to their first await (lines 447-450):
\* cacheService.get(cacheKey) is called; conn is isConnected at that moment.
IngestStart(task, kind, gateOpen, conn) ==
  [IdleRun EXCEPT !.task = task, !.kind = kind, !.gateOpen = gateOpen,
                  !.pc = "get", !.sent = conn, !.nGet = 1]

\* A pipeline that fetches whatever the dedup lookup returned.
AfterGetNoDedup(run, cached) ==
  [run EXCEPT !.pc = "fetch", !.nFetch = @ + 1, !.hit = Truthy(cached)]

\* Lines 452-457: `if (cached) return;` else fetch is called.
AfterGet(run, cached) ==
  IF Truthy(cached)
    THEN [run EXCEPT !.pc = "done", !.out = "skipped", !.hit = TRUE]
    ELSE [run EXCEPT !.pc = "fetch", !.nFetch = @ + 1]

\* A pipeline without the try/catch: a raising fetch rejects its promise.
AfterFetchNoCatch(run, result) ==
  CASE result = "raise" ->
         [run EXCEPT !.pc = "done", !.out = "fetchErr", !.fetched = result,
                     !.thrown = TRUE]
    [] result = "empty" ->
         [run EXCEPT !.pc = "done", !.out = "empty", !.fetched = result]
    [] result = "items" ->
         [run EXCEPT !.pc = "store", !.fetched = result, !.nStore = @ + 1]

\* A pipeline that stores whatever the fetch returned, an empty list included.
AfterFetchStoresEmpty(run, result) ==
  CASE result = "raise" ->
         [run EXCEPT !.pc = "done", !.out = "fetchErr", !.fetched = result,
                     !.errLogged = TRUE]
    [] result \in {"empty", "items"} ->
         [run EXCEPT !.pc = "store", !.fetched = result, !.nStore = @ + 1]

\* Lines 457-466: the fetch raised (caught and logged), returned no item, or
\* returned items, and then vectorService.addData is called.
AfterFetch(run, result) ==
  CASE result = "raise" ->
         [run EXCEPT !.pc = "done", !.out = "fetchErr", !.fetched = result,
                     !.errLogged = TRUE]
    [] result = "empty" ->
         [run EXCEPT !.pc = "done", !.out = "empty", !.fetched = result]
    [] result = "items" ->
         [run EXCEPT !.pc = "store", !.fetched = result, !.nStore = @ + 1]

\* A pipeline that writes the marker even when addData raised.
AfterStoreMarksOnRaise(run, ok, conn) ==
  [run EXCEPT !.pc = "set", !.nSet = @ + 1, !.sent = conn, !.errLogged = ~ok]

\* A pipeline that never resumes from the marker write.
AfterSetHangs(run) == run

\* Lines 460-466: addData raised (caught and logged), or returned, and then
\* cacheService.set is called; conn is isConnected at that moment.
AfterStore(run, ok, conn) ==
  IF ok
    THEN [run EXCEPT !.pc = "set", !.nSet = @ + 1, !.sent = conn]
    ELSE [run EXCEPT !.pc = "done", !.out = "storeErr", !.errLogged = TRUE]

\* Lines 461-463: set returned (its result is ignored); the method returns.
AfterSet(run) == [run EXCEPT !.pc = "done", !.out = "stored"]

\* A stocks callback that does not consult isMarketHours.
TickRunNoGate(task, gateOpen, conn) == IngestStart(task, "tick", gateOpen, conn)

\* The callback start() registers for a task (lines 350-379): the stocks
\* callback returns at once outside market hours.
TickRun(task, gateOpen, conn) ==
  IF Gated(task) /\ ~gateOpen
    THEN [IdleRun EXCEPT !.task = task, !.kind = "tick", !.gateOpen = FALSE,
                         !.pc = "done", !.out = "gateSkip"]
    ELSE IngestStart(task, "tick", gateOpen, conn)

\* The case of runOnce's switch for a task name (lines 399-416).
ManualRun(task, gateOpen, conn) == IngestStart(task, "manual", gateOpen, conn)

\* A switch without the default case: an unknown name is a silent no-op.
RunOnceSwitchNoDefault(taskType) ==
  IF taskType \in TaskNames THEN [pipes |-> {taskType}, error |-> "none"]
  ELSE IF taskType = "all" THEN [pipes |-> TaskNames, error |-> "none"]
  ELSE [pipes |-> {}, error |-> "none"]

\* runOnce's switch, lines 398-422: the pipelines the call invokes and the
\* error it throws.
RunOnceSwitch(taskType) ==
  IF taskType \in TaskNames THEN [pipes |-> {taskType}, error |-> "none"]
  ELSE IF taskType = "all" THEN [pipes |-> TaskNames, error |-> "none"]
  ELSE [pipes |-> {}, error |-> "UnknownTask"]

\* A fan-out that resumes as soon as one branch has settled (Promise.race).
AnySettled(bs) == \E t \in DOMAIN bs : bs[t].pc = "done"

\* Promise.allSettled of ingestAll, lines 582-589: fulfilled once every
\* branch has settled.
AllSettled(bs) == \A t \in DOMAIN bs : bs[t].pc = "done"

FetchResults == {"raise", "empty", "items"}

\* config.ingestion.maxRetries (config/index.ts line 54).  No pipeline reads
\* it: a failed invocation is logged and ends.
IngestionMaxRetries == 3

(***************************************************************************)
(*                            SCHEDULER SERVICE                            *)
(***************************************************************************)

\* Bounds of the scheduler model.
MaxStarts == 2     \* at most MaxStarts calls of start() in one behaviour
MaxRuns == 2       \* invocation slots of the pipeline specification
MaxRegRuns == 1    \* invocation slots of the registry specification

RunIds == 1..MaxRuns
UnknownNames == {"bogus", ""}
NoCall == [op |-> "", arg |-> "", error |-> "none"]

\* scheduleTask, lines 425-445: a new cron task is created, recorded under
\* its name (replacing the entry of that name) and started.
ScheduleTask(reg, name) ==
  [tasks |-> [reg.tasks EXCEPT ![name] = Len(reg.triggers) + 1],
   triggers |-> Append(reg.triggers, [name |-> name, status |-> "scheduled"])]

RECURSIVE ScheduleFrom(_, _)
ScheduleFrom(reg, i) ==
  IF i > Len(StartOrder) THEN reg
  ELSE ScheduleFrom(ScheduleTask(reg, StartOrder[i]), i + 1)

\* start, lines 346-382.
StartReg(reg) == ScheduleFrom(reg, 1)

\* stop, lines 384-393.  destroy() is called on each recorded task through an
\* `any` cast: where the task object has no such method the first call
\* throws a TypeError and clear() is not reached.
StopReg(reg, destroyable) ==
  LET ids == {reg.tasks[n] : n \in DOMAIN reg.tasks} \ {0}
  IN IF ids # {} /\ ~destroyable
       THEN [tasks |-> reg.tasks, triggers |-> reg.triggers, error |-> "TypeError"]
       ELSE [tasks |-> [n \in DOMAIN reg.tasks |-> 0],
             triggers |-> [i \in DOMAIN reg.triggers |->
                             IF i \in ids
                               THEN [reg.triggers[i] EXCEPT !.status = "destroyed"]
                               ELSE reg.triggers[i]],
             error |-> "none"]

\* The state after construction (lines 334-344 and 632-653).
Constructed ==
  /\ scheduledTasks = [n \in TaskNames |-> 0]
  /\ triggers = <<>>
  /\ nStarts = 0
  /\ lastCall = NoCall
  /\ runs = [r \in RunIds |-> IdleRun]
  /\ allPc = "idle"
  /\ branches = [t \in TaskNames |-> IdleRun]
  /\ redis = [k \in CacheKeys |-> Absent]
  /\ isConnected = FALSE

Start ==
  /\ nStarts < MaxStarts
  /\ LET reg == StartReg([tasks |-> scheduledTasks, triggers |-> triggers])
     IN /\ scheduledTasks' = reg.tasks
        /\ triggers' = reg.triggers
  /\ nStarts' = nStarts + 1
  /\ lastCall' = [op |-> "start", arg |-> "", error |-> "none"]
  /\ UNCHANGED <<rlVars, apiVars, obsVars, opVars, qVars, hasDestroy, runs, allPc, branches, cacheVars>>

Stop ==
  /\ LET reg == StopReg([tasks |-> scheduledTasks, triggers |-> triggers],
                        hasDestroy)
     IN /\ scheduledTasks' = reg.tasks
        /\ triggers' = reg.triggers
        /\ lastCall' = [op |-> "stop", arg |-> "", error |-> reg.error]
  /\ UNCHANGED <<rlVars, apiVars, obsVars, opVars, qVars, hasDestroy, nStarts, runs, allPc, branches, cacheVars>>

\* The unused invocation slots among 1..cap, and the lowest of them.
FreeSlots(cap) == {r \in 1..cap : runs[r].pc = "idle"}
FreeSlot(cap) == CHOOSE r \in FreeSlots(cap) : \A q \in FreeSlots(cap) : r <= q

\* The cron callback of an active trigger fires (lines 426-436).
TickFire(id, cap) ==
  /\ id \in DOMAIN triggers
  /\ triggers[id].status = "scheduled"
  /\ FreeSlots(cap) # {}
  /\ \E c \in Clocks(triggers[id].name) :
       runs' = [runs EXCEPT ![FreeSlot(cap)] =
                  TickRun(triggers[id].name,
                          GateAt(triggers[id].name, c[1], c[2]), isConnected)]
  /\ UNCHANGED <<rlVars, apiVars, obsVars, opVars, qVars, regVars, lastCall, allPc, branches, cacheVars>>

\* The minutes at which config.schedules.stocks ('*/10 * * * *') fires.
StocksMinutes == {0, 10, 20, 30, 40, 50}

\* The cron callback of an active stocks trigger fires at a clock reading
\* (lines 359-364 and 426-436): isMarketHours reads the day and the hour.
StocksTickAt(id, cap, day, hour, minute) ==
  /\ id \in DOMAIN triggers
  /\ triggers[id].status = "scheduled"
  /\ triggers[id].name = "stocks"
  /\ FreeSlots(cap) # {}
  /\ runs' = [runs EXCEPT ![FreeSlot(cap)] =
                TickRun("stocks", IsMarketHours(day, hour), isConnected)]
  /\ tickClock' = [day |-> day, hour |-> hour, minute |-> minute]
  /\ UNCHANGED <<rlVars, apiVars, rlStats, opVars, qVars, regVars, lastCall, allPc, branches, cacheVars>>

\* runOnce(taskType), lines 395-423, up to its first await or its throw.
\* cap: the slots a single invocation may take; clocks: the clock readings at
\* which a fan-out is dispatched (ingestAll itself reads no clock).
RunOnce(taskType, cap, clocks) ==
  LET sw == RunOnceSwitch(taskType)
  IN /\ lastCall' = [op |-> "runOnce", arg |-> taskType, error |-> sw.error]
     /\ IF sw.pipes = {}
          THEN UNCHANGED <<runs, allPc, branches>>
        ELSE IF sw.pipes = TaskNames
          THEN /\ allPc = "idle"
               /\ allPc' = "waiting"
               /\ \E c \in clocks :
                    branches' = [t \in TaskNames |->
                                   IngestStart(t, "all", GateAt(t, c[1], c[2]),
                                               isConnected)]
               /\ UNCHANGED runs
        ELSE /\ FreeSlots(cap) # {}
             /\ \E t \in sw.pipes : \E c \in Clocks(t) :
                  runs' = [runs EXCEPT ![FreeSlot(cap)] =
                             ManualRun(t, GateAt(t, c[1], c[2]), isConnected)]
             /\ UNCHANGED <<allPc, branches>>
     /\ UNCHANGED <<rlVars, apiVars, obsVars, opVars, qVars, regVars, cacheVars>>

\* `await this.cacheService.get(cacheKey)` resumes.
DedupCheck(r) ==
  /\ runs[r].pc = "get"
  /\ \E ioErr \in BOOLEAN :
       runs' = [runs EXCEPT ![r] =
                  AfterGet(@, CacheGet(@.sent, ioErr, redis[CacheKey(@.task)]))]
  /\ UNCHANGED <<rlVars, apiVars, obsVars, opVars, qVars, regVars, lastCall, allPc, branches, cacheVars>>

\* `await this.dataSourceService.fetch...()` resumes or throws.
FetchReturn(r) ==
  /\ runs[r].pc = "fetch"
  /\ \E res \in FetchResults : runs' = [runs EXCEPT ![r] = AfterFetch(@, res)]
  /\ UNCHANGED <<rlVars, apiVars, obsVars, opVars, qVars, regVars, lastCall, allPc, branches, cacheVars>>

\* `await this.vectorService.addData(...)` resumes or throws.
StoreReturn(r) ==
  /\ runs[r].pc = "store"
  /\ \E ok \in BOOLEAN : runs' = [runs EXCEPT ![r] = AfterStore(@, ok, isConnected)]
  /\ UNCHANGED <<rlVars, apiVars, obsVars, opVars, qVars, regVars, lastCall, allPc, branches, cacheVars>>

\* `await this.cacheService.set(cacheKey, 'fetched', ttl)` resumes.
SetReturn(r) ==
  /\ runs[r].pc = "set"
  /\ \E ioErr \in BOOLEAN, applied \in BOOLEAN :
       redis' = CacheSet(runs[r].sent, ioErr, applied, CacheKey(runs[r].task),
                         "fetched", <<CacheTtl(runs[r].task)>>, redis).db
  /\ runs' = [runs EXCEPT ![r] = AfterSet(@)]
  /\ UNCHANGED <<rlVars, apiVars, obsVars, opVars, qVars, regVars, lastCall, allPc, branches, isConnected>>

\* The same four resumptions for the branches of ingestAll.
BranchDedup(t) ==
  /\ branches[t].pc = "get"
  /\ \E ioErr \in BOOLEAN :
       branches' = [branches EXCEPT ![t] =
                      AfterGet(@, CacheGet(@.sent, ioErr, redis[CacheKey(t)]))]
  /\ UNCHANGED <<rlVars, apiVars, obsVars, opVars, qVars, regVars, lastCall, allPc, runs, cacheVars>>

BranchFetch(t) ==
  /\ branches[t].pc = "fetch"
  /\ \E res \in FetchResults :
       branches' = [branches EXCEPT ![t] = AfterFetch(@, res)]
  /\ UNCHANGED <<rlVars, apiVars, obsVars, opVars, qVars, regVars, lastCall, allPc, runs, cacheVars>>

BranchStore(t) ==
  /\ branches[t].pc = "store"
  /\ \E ok \in BOOLEAN :
       branches' = [branches EXCEPT ![t] = AfterStore(@, ok, isConnected)]
  /\ UNCHANGED <<rlVars, apiVars, obsVars, opVars, qVars, regVars, lastCall, allPc, runs, cacheVars>>

BranchSet(t) ==
  /\ branches[t].pc = "set"
  /\ \E ioErr \in BOOLEAN, applied \in BOOLEAN :
       redis' = CacheSet(branches[t].sent, ioErr, applied, CacheKey(t),
                         "fetched", <<CacheTtl(t)>>, redis).db
  /\ branches' = [branches EXCEPT ![t] = AfterSet(@)]
  /\ UNCHANGED <<rlVars, apiVars, obsVars, opVars, qVars, regVars, lastCall, allPc, runs, isConnected>>

\* `await Promise.allSettled([...])` resumes; ingestAll and runOnce return.
AllReturn ==
  /\ allPc = "waiting"
  /\ AllSettled(branches)
  /\ allPc' = "returned"
  /\ UNCHANGED <<rlVars, apiVars, obsVars, opVars, qVars, regVars, lastCall, runs, branches, cacheVars>>

\* The redis client's 'connect' event (lines 644-647).
RedisUp ==
  /\ clientOpen
  /\ ~isConnected
  /\ isConnected' = TRUE
  /\ UNCHANGED <<rlVars, apiVars, obsVars, opVars, qVars, regVars, lastCall, runs, allPc, branches, redis>>

\* The redis client's 'error' and 'disconnect' events (lines 639-652).
RedisDown ==
  /\ isConnected
  /\ isConnected' = FALSE
  /\ UNCHANGED <<rlVars, apiVars, obsVars, opVars, qVars, regVars, lastCall, runs, allPc, branches, redis>>

\* The backing store expires a key written with a ttl.
Expire(k) ==
  /\ redis[k].present /\ redis[k].ttl > 0
  /\ redis' = [redis EXCEPT ![k] = Absent]
  /\ UNCHANGED <<rlVars, apiVars, obsVars, opVars, qVars, regVars, lastCall, runs, allPc, branches, isConnected>>

(***************************************************************************)
(*                             CACHE OPERATIONS                            *)
(***************************************************************************)

\* The rest of the scheduler's state, which no cache operation touches.
pipeVars == <<regVars, lastCall, runs, allPc, branches>>

\* Keys, payloads, ttl arguments and patterns the operations are called with.
OpKeys == {"news_latest", "crypto_latest"}
Data == {1, 2}
Payloads == {"1", "2", "{bad"}
TtlArgs == {<<>>, <<0>>, <<30>>}
Patterns == {"*", "news_*", "zzz_*"}

\* The default serializer of getOrSet (lines 824-827): JSON.stringify.
Serialize(d) == CASE d = 1 -> "1" [] d = 2 -> "2"

\* JSON.parse accepts the payload, and what it returns.
Decodes(s) == s \in {"1", "2"}
Deserialize(s) == CASE s = "1" -> 1 [] s = "2" -> 2

\* The glob match of the KEYS command, for the patterns above.
Matches(pattern, key) ==
  CASE pattern = "*" -> TRUE
    [] pattern = "news_*" -> key = "news_latest"
    [] OTHER -> FALSE

\* A command sent to a closed client is rejected; an open one may reject it.
IoErrs == IF clientOpen THEN BOOLEAN ELSE {TRUE}

Removed(db, keys) == [k \in DOMAIN db |-> IF k \in keys THEN Absent ELSE db[k]]

\* CacheService.del, lines 715-729: the result (result > 0) and the store.
CacheDelIgnoresError(sent, ioErr, applied, key, db) ==
  IF ~sent THEN [ok |-> FALSE, db |-> db]
  ELSE [ok |-> db[key].present, db |-> Removed(db, {key})]

CacheDel(sent, ioErr, applied, key, db) ==
  IF ~sent THEN [ok |-> FALSE, db |-> db]
  ELSE IF ioErr
    THEN [ok |-> FALSE, db |-> IF applied THEN Removed(db, {key}) ELSE db]
    ELSE [ok |-> db[key].present, db |-> Removed(db, {key})]

\* CacheService.exists, lines 731-743.
CacheExists(sent, ioErr, entry) ==
  IF ~sent THEN FALSE
  ELSE IF ioErr THEN FALSE
  ELSE entry.present

\* CacheService.keys, lines 745-756.
CacheKeysOf(sent, ioErr, pattern, db) ==
  IF ~sent THEN {}
  ELSE IF ioErr THEN {}
  ELSE {k \in DOMAIN db : db[k].present /\ Matches(pattern, k)}

\* `await this.client.del(keys)` of flushPattern, lines 769-775.
FlushDel(ioErr, applied, keys, db) ==
  IF ioErr
    THEN [count |-> 0, db |-> IF applied THEN Removed(db, keys) ELSE db]
    ELSE [count |-> Cardinality({k \in keys : db[k].present}),
          db |-> Removed(db, keys)]

\* No operation in flight.  nCmd counts the commands handed to the client;
\* nGet, nDel, nFetch and nSet count getOrSet's calls of this.get, this.del,
\* fetcher and this.set.
OpIdle ==
  [name |-> "none", pc |-> "idle", key |-> "", pattern |-> "",
   arg |-> "", ttl |-> <<>>, sent |-> FALSE, ioErr |-> FALSE,
   value |-> Null, ok |-> FALSE, count |-> 0, found |-> {}, data |-> 0,
   raised |-> FALSE, nCmd |-> 0, nGet |-> 0, nDel |-> 0, nFetch |-> 0,
   nSet |-> 0, cached |-> Null, corrupt |-> FALSE, delOk |-> FALSE,
   fresh |-> 0, setSent |-> FALSE, setOk |-> FALSE]

\* What fetcher() may do: return a value, or throw.
FetcherResults ==
  {[ok |-> TRUE, data |-> d] : d \in Data} \cup {[ok |-> FALSE, data |-> 0]}

\* getOrSet, line 840: `await fetcher()` is issued.
GosStartFetch(o) == [o EXCEPT !.pc = "fetch", !.nFetch = @ + 1]

\* getOrSet, lines 830-838, after `await this.get(key)`; conn is isConnected
\* when this.del is called.
GosAfterGetNoDelete(o, cached, conn) ==
  IF Truthy(cached) /\ Decodes(cached)
    THEN [o EXCEPT !.pc = "done", !.cached = cached,
                   !.data = Deserialize(cached)]
    ELSE GosStartFetch([o EXCEPT !.cached = cached,
                                 !.corrupt = Truthy(cached)])

GosAfterGet(o, cached, conn) ==
  IF Truthy(cached)
    THEN IF Decodes(cached)
      THEN [o EXCEPT !.pc = "done", !.cached = cached,
                     !.data = Deserialize(cached)]
      ELSE IF conn
        THEN [o EXCEPT !.pc = "del", !.cached = cached, !.corrupt = TRUE,
                       !.nDel = @ + 1, !.nCmd = @ + 1]
        ELSE GosStartFetch([o EXCEPT !.cached = cached, !.corrupt = TRUE,
                                     !.nDel = @ + 1])
    ELSE GosStartFetch([o EXCEPT !.cached = cached])

\* getOrSet, line 836, after `await this.del(key)`.
GosAfterDel(o, ok) == GosStartFetch([o EXCEPT !.delOk = ok])

\* getOrSet, lines 840-842, after `await fetcher()`; conn is isConnected when
\* this.set is called.
GosAfterFetcher(o, res, conn) ==
  IF ~res.ok THEN [o EXCEPT !.pc = "done", !.raised = TRUE]
  ELSE IF conn
    THEN [o EXCEPT !.pc = "set", !.fresh = res.data, !.nSet = @ + 1,
                   !.nCmd = @ + 1, !.setSent = TRUE]
    ELSE [o EXCEPT !.pc = "done", !.fresh = res.data, !.nSet = @ + 1,
                   !.data = res.data]

\* getOrSet, lines 842-844, after `await this.set(...)`.
GosAfterSetRaises(o, ok) ==
  IF ok THEN [o EXCEPT !.pc = "done", !.setOk = ok, !.data = o.fresh]
  ELSE [o EXCEPT !.pc = "done", !.setOk = ok, !.raised = TRUE]

GosAfterSet(o, ok) == [o EXCEPT !.pc = "done", !.setOk = ok, !.data = o.fresh]

\* The state of a freshly constructed CacheService (lines 631-653).
CacheConstructed ==
  /\ clientOpen = FALSE
  /\ op = OpIdle

\* The cache service after the boot sequence has opened the client, with no
\* operation in flight, for the specifications that do not call it directly.
OpsQuiet ==
  /\ emitsDisconnect = FALSE
  /\ clientOpen = TRUE
  /\ op = OpIdle

\* ---- get(key) ----
CallGet(k) ==
  /\ op = OpIdle
  /\ op' = IF isConnected
             THEN [OpIdle EXCEPT !.name = "get", !.pc = "wait", !.key = k,
                                 !.sent = TRUE, !.nCmd = 1]
             ELSE [OpIdle EXCEPT !.name = "get", !.pc = "done", !.key = k,
                                 !.value = CacheGet(FALSE, FALSE, redis[k])]
  /\ UNCHANGED <<rlVars, apiVars, obsVars, qVars, pipeVars, cacheVars, emitsDisconnect, clientOpen>>

GetReply ==
  /\ op.name = "get" /\ op.pc = "wait"
  /\ \E ioErr \in IoErrs :
       op' = [op EXCEPT !.pc = "done", !.ioErr = ioErr,
                        !.value = CacheGet(TRUE, ioErr, redis[op.key])]
  /\ UNCHANGED <<rlVars, apiVars, obsVars, qVars, pipeVars, cacheVars, emitsDisconnect, clientOpen>>

\* ---- set(key, value, ttlSeconds) ----
CallSet(k, v, t) ==
  /\ op = OpIdle
  /\ op' = IF isConnected
             THEN [OpIdle EXCEPT !.name = "set", !.pc = "wait", !.key = k,
                                 !.arg = v, !.ttl = t, !.sent = TRUE,
                                 !.nCmd = 1]
             ELSE [OpIdle EXCEPT !.name = "set", !.pc = "done", !.key = k,
                                 !.arg = v, !.ttl = t,
                                 !.ok = CacheSet(FALSE, FALSE, FALSE, k, v, t,
                                                 redis).ok]
  /\ UNCHANGED <<rlVars, apiVars, obsVars, qVars, pipeVars, cacheVars, emitsDisconnect, clientOpen>>

SetReply ==
  /\ op.name = "set" /\ op.pc = "wait"
  /\ \E ioErr \in IoErrs, applied \in BOOLEAN :
       LET r == CacheSet(TRUE, ioErr, applied, op.key, op.arg, op.ttl, redis)
       IN /\ op' = [op EXCEPT !.pc = "done", !.ioErr = ioErr, !.ok = r.ok]
          /\ redis' = r.db
  /\ UNCHANGED <<rlVars, apiVars, obsVars, qVars, pipeVars, isConnected, emitsDisconnect, clientOpen>>

\* ---- del(key) ----
CallDel(k) ==
  /\ op = OpIdle
  /\ op' = IF isConnected
             THEN [OpIdle EXCEPT !.name = "del", !.pc = "wait", !.key = k,
                                 !.sent = TRUE, !.nCmd = 1]
             ELSE [OpIdle EXCEPT !.name = "del", !.pc = "done", !.key = k,
                                 !.ok = CacheDel(FALSE, FALSE, FALSE, k,
                                                 redis).ok]
  /\ UNCHANGED <<rlVars, apiVars, obsVars, qVars, pipeVars, cacheVars, emitsDisconnect, clientOpen>>

DelReply ==
  /\ op.name = "del" /\ op.pc = "wait"
  /\ \E ioErr \in IoErrs, applied \in BOOLEAN :
       LET r == CacheDel(TRUE, ioErr, applied, op.key, redis)
       IN /\ op' = [op EXCEPT !.pc = "done", !.ioErr = ioErr, !.ok = r.ok]
          /\ redis' = r.db
  /\ UNCHANGED <<rlVars, apiVars, obsVars, qVars, pipeVars, isConnected, emitsDisconnect, clientOpen>>

\* ---- exists(key) ----
CallExists(k) ==
  /\ op = OpIdle
  /\ op' = IF isConnected
             THEN [OpIdle EXCEPT !.name = "exists", !.pc = "wait", !.key = k,
                                 !.sent = TRUE, !.nCmd = 1]
             ELSE [OpIdle EXCEPT !.name = "exists", !.pc = "done", !.key = k,
                                 !.ok = CacheExists(FALSE, FALSE, redis[k])]
  /\ UNCHANGED <<rlVars, apiVars, obsVars, qVars, pipeVars, cacheVars, emitsDisconnect, clientOpen>>

ExistsReply ==
  /\ op.name = "exists" /\ op.pc = "wait"
  /\ \E ioErr \in IoErrs :
       op' = [op EXCEPT !.pc = "done", !.ioErr = ioErr,
                        !.ok = CacheExists(TRUE, ioErr, redis[op.key])]
  /\ UNCHANGED <<rlVars, apiVars, obsVars, qVars, pipeVars, cacheVars, emitsDisconnect, clientOpen>>

\* ---- keys(pattern) ----
CallKeys(p) ==
  /\ op = OpIdle
  /\ op' = IF isConnected
             THEN [OpIdle EXCEPT !.name = "keys", !.pc = "wait",
                                 !.pattern = p, !.sent = TRUE, !.nCmd = 1]
             ELSE [OpIdle EXCEPT !.name = "keys", !.pc = "done",
                                 !.pattern = p,
                                 !.found = CacheKeysOf(FALSE, FALSE, p, redis)]
  /\ UNCHANGED <<rlVars, apiVars, obsVars, qVars, pipeVars, cacheVars, emitsDisconnect, clientOpen>>

KeysReply ==
  /\ op.name = "keys" /\ op.pc = "wait"
  /\ \E ioErr \in IoErrs :
       op' = [op EXCEPT !.pc = "done", !.ioErr = ioErr,
                        !.found = CacheKeysOf(TRUE, ioErr, op.pattern, redis)]
  /\ UNCHANGED <<rlVars, apiVars, obsVars, qVars, pipeVars, cacheVars, emitsDisconnect, clientOpen>>

\* ---- flushPattern(pattern) ----
\* Lines 759-764: the connection check, then this.keys(pattern), whose own
\* check sees the same flag and issues client.keys.
CallFlushPattern(p) ==
  /\ op = OpIdle
  /\ op' = IF isConnected
             THEN [OpIdle EXCEPT !.name = "flushPattern", !.pc = "keys",
                                 !.pattern = p, !.sent = TRUE, !.nCmd = 1]
             ELSE [OpIdle EXCEPT !.name = "flushPattern", !.pc = "done",
                                 !.pattern = p]
  /\ UNCHANGED <<rlVars, apiVars, obsVars, qVars, pipeVars, cacheVars, emitsDisconnect, clientOpen>>

\* Lines 764-769: this.keys resumes; client.del(keys) is issued when some
\* key matched.
FlushKeysReply ==
  /\ op.name = "flushPattern" /\ op.pc = "keys"
  /\ \E ioErr \in IoErrs :
       LET ks == CacheKeysOf(TRUE, ioErr, op.pattern, redis)
       IN op' = IF ks = {}
                  THEN [op EXCEPT !.pc = "done", !.ioErr = ioErr]
                  ELSE [op EXCEPT !.pc = "del", !.found = ks, !.nCmd = @ + 1]
  /\ UNCHANGED <<rlVars, apiVars, obsVars, qVars, pipeVars, cacheVars, emitsDisconnect, clientOpen>>

FlushDelReply ==
  /\ op.name = "flushPattern" /\ op.pc = "del"
  /\ \E ioErr \in IoErrs, applied \in BOOLEAN :
       LET r == FlushDel(ioErr, applied, op.found, redis)
       IN /\ op' = [op EXCEPT !.pc = "done", !.ioErr = ioErr,
                              !.count = r.count]
          /\ redis' = r.db
  /\ UNCHANGED <<rlVars, apiVars, obsVars, qVars, pipeVars, isConnected, emitsDisconnect, clientOpen>>

\* ---- getOrSet(key, fetcher, ttlSeconds) ----
\* Line 829: this.get(key) is called.  When the cache is disconnected it
\* returns null at once and the fetcher is called in the same turn.
CallGetOrSet(k, t) ==
  /\ op = OpIdle
  /\ op' = IF isConnected
             THEN [OpIdle EXCEPT !.name = "getOrSet", !.pc = "get", !.key = k,
                                 !.ttl = t, !.sent = TRUE, !.nGet = 1,
                                 !.nCmd = 1]
             ELSE GosAfterGet([OpIdle EXCEPT !.name = "getOrSet", !.key = k,
                                             !.ttl = t, !.nGet = 1],
                              CacheGet(FALSE, FALSE, redis[k]), isConnected)
  /\ UNCHANGED <<rlVars, apiVars, obsVars, qVars, pipeVars, cacheVars, emitsDisconnect, clientOpen>>

GosGetReply ==
  /\ op.name = "getOrSet" /\ op.pc = "get"
  /\ \E ioErr \in IoErrs :
       op' = GosAfterGet(op, CacheGet(TRUE, ioErr, redis[op.key]), isConnected)
  /\ UNCHANGED <<rlVars, apiVars, obsVars, qVars, pipeVars, cacheVars, emitsDisconnect, clientOpen>>

GosDelReply ==
  /\ op.name = "getOrSet" /\ op.pc = "del"
  /\ \E ioErr \in IoErrs, applied \in BOOLEAN :
       LET r == CacheDel(TRUE, ioErr, applied, op.key, redis)
       IN /\ op' = GosAfterDel(op, r.ok)
          /\ redis' = r.db
  /\ UNCHANGED <<rlVars, apiVars, obsVars, qVars, pipeVars, isConnected, emitsDisconnect, clientOpen>>

GosFetcherReturn ==
  /\ op.name = "getOrSet" /\ op.pc = "fetch"
  /\ \E res \in FetcherResults : op' = GosAfterFetcher(op, res, isConnected)
  /\ UNCHANGED <<rlVars, apiVars, obsVars, qVars, pipeVars, cacheVars, emitsDisconnect, clientOpen>>

GosSetReply ==
  /\ op.name = "getOrSet" /\ op.pc = "set"
  /\ \E ioErr \in IoErrs, applied \in BOOLEAN :
       LET r == CacheSet(TRUE, ioErr, applied, op.key, Serialize(op.fresh),
                         op.ttl, redis)
       IN /\ op' = GosAfterSet([op EXCEPT !.ioErr = ioErr], r.ok)
          /\ redis' = r.db
  /\ UNCHANGED <<rlVars, apiVars, obsVars, qVars, pipeVars, isConnected, emitsDisconnect, clientOpen>>

\* ---- connect() and disconnect() ----
CallConnect ==
  /\ op = OpIdle
  /\ op' = [OpIdle EXCEPT !.name = "connect", !.pc = "wait", !.nCmd = 1]
  /\ UNCHANGED <<rlVars, apiVars, obsVars, qVars, pipeVars, cacheVars, emitsDisconnect, clientOpen>>

\* Lines 655-663: client.connect() resolves after the 'connect' event, or
\* rejects (already open, or the server is unreachable and the 'error' event
\* fires) and the error is rethrown.
ConnectReply ==
  /\ op.name = "connect" /\ op.pc = "wait"
  /\ \E ok \in (IF clientOpen THEN {FALSE} ELSE BOOLEAN) :
       /\ op' = [op EXCEPT !.pc = "done", !.ok = ok, !.raised = ~ok]
       /\ clientOpen' = (clientOpen \/ ok)
       /\ isConnected' = IF ok THEN TRUE
                         ELSE IF clientOpen THEN isConnected ELSE FALSE
  /\ UNCHANGED <<rlVars, apiVars, obsVars, qVars, pipeVars, redis, emitsDisconnect>>

CallDisconnect ==
  /\ op = OpIdle
  /\ op' = [OpIdle EXCEPT !.name = "disconnect", !.pc = "wait", !.nCmd = 1]
  /\ UNCHANGED <<rlVars, apiVars, obsVars, qVars, pipeVars, cacheVars, emitsDisconnect, clientOpen>>

\* Lines 665-672: client.disconnect() closes the socket, or rejects on a
\* closed client and the error is logged.  The handler of line 649 runs only
\* if the client emits an event named 'disconnect'.
DisconnectReply ==
  /\ op.name = "disconnect" /\ op.pc = "wait"
  /\ op' = [op EXCEPT !.pc = "done", !.ok = clientOpen]
  /\ clientOpen' = FALSE
  /\ isConnected' = IF clientOpen /\ emitsDisconnect THEN FALSE ELSE isConnected
  /\ UNCHANGED <<rlVars, apiVars, obsVars, qVars, pipeVars, redis, emitsDisconnect>>

\* The caller takes the result; the next operation may be called.
OpReturn ==
  /\ op.pc = "done"
  /\ op' = OpIdle
  /\ UNCHANGED <<rlVars, apiVars, obsVars, qVars, pipeVars, cacheVars, emitsDisconnect, clientOpen>>

(***************************************************************************)
(*                       VECTOR QUERY: THE WHERE CLAUSE                    *)
(***************************************************************************)

MaxList == 2      \* longest type / symbols array of a query
MaxQueries == 2   \* queries per behaviour

TypeTags == {"news", "crypto"}
Symbols == {"BTC", "ETH"}
Instants == {0, 1500, 86401500}     \* Date values, in epoch milliseconds

Lists(S) == UNION {[1..n -> S] : n \in 0..MaxList}

\* An optional array argument and an optional time range.
NoList == [present |-> FALSE, list |-> <<>>]
NoRange == [present |-> FALSE, start |-> 0, end |-> 0]
OptLists(S) == {NoList} \cup {[present |-> TRUE, list |-> l] : l \in Lists(S)}
OptRanges ==
  {NoRange} \cup {[present |-> TRUE, start |-> p[1], end |-> p[2]] :
                    p \in {q \in Instants \X Instants : q[1] <= q[2]}}

AllOptions ==
  [type : OptLists(TypeTags), symbols : OptLists(Symbols), timeRange : OptRanges]

\* The objects of a where clause: {field: value}, {"$or": [...]},
\* {"$and": [...]}, {field: {"$gte": n}}, {field: {"$lte": n}} and {}.
Equals(field, value) ==
  [op |-> "eq", field |-> field, value |-> value, num |-> 0, children |-> <<>>]
Or(children) ==
  [op |-> "or", field |-> "", value |-> "", num |-> 0, children |-> children]
And(children) ==
  [op |-> "and", field |-> "", value |-> "", num |-> 0, children |-> children]
Gte(field, n) ==
  [op |-> "gte", field |-> field, value |-> "", num |-> n, children |-> <<>>]
Lte(field, n) ==
  [op |-> "lte", field |-> field, value |-> "", num |-> n, children |-> <<>>]
EmptyClause ==
  [op |-> "none", field |-> "", value |-> "", num |-> 0, children |-> <<>>]

\* Math.floor(date.getTime() / 1000).
EpochSeconds(ms) == ms \div 1000

\* The condition of an array option with its children in reverse order.
ArrayConditionReversed(field, d) ==
  IF d.present /\ Len(d.list) > 0
    THEN IF Len(d.list) = 1
      THEN <<Equals(field, d.list[1])>>
      ELSE <<Or([i \in 1..Len(d.list) |->
                   Equals(field, d.list[Len(d.list) + 1 - i])])>>
    ELSE <<>>

\* The condition of an array option without the length test.
ArrayConditionUnguarded(field, d) ==
  IF d.present
    THEN IF Len(d.list) = 1
      THEN <<Equals(field, d.list[1])>>
      ELSE <<Or([i \in 1..Len(d.list) |-> Equals(field, d.list[i])])>>
    ELSE <<>>

\* Lines 71-80 and 92-101: what `type` or `symbols` pushes onto conditions.
ArrayCondition(field, d) ==
  IF d.present /\ Len(d.list) > 0
    THEN IF Len(d.list) = 1
      THEN <<Equals(field, d.list[1])>>
      ELSE <<Or([i \in 1..Len(d.list) |-> Equals(field, d.list[i])])>>
    ELSE <<>>

\* Lines 82-90: a time range pushes nothing (the two pushes are commented
\* out); its bounds are only logged.
TimeCondition(tr) == <<>>

TimeLog(tr) ==
  IF tr.present
    THEN <<EpochSeconds(tr.start), EpochSeconds(tr.end)>>
    ELSE <<>>

\* Lines 69-101: the conditions array.
Conditions(o) ==
  ArrayCondition("type", o.type) \o TimeCondition(o.timeRange)
    \o ArrayCondition("symbol", o.symbols)

\* Lines 103-109 and 116: the final where clause.
WhereClause(conditions) ==
  IF Len(conditions) = 1 THEN conditions[1]
  ELSE IF Len(conditions) > 1 THEN And(conditions)
  ELSE EmptyClause

NoWhere ==
  [op |-> "pending", field |-> "", value |-> "", num |-> 0, children |-> <<>>]

QueryInit ==
  /\ options \in AllOptions
  /\ whereClause = NoWhere
  /\ prevWhere = NoWhere
  /\ timeLogged = <<>>
  /\ nQueries = 0

\* No query made, for the specifications that do not exercise the compiler.
QueryQuiet ==
  /\ options = [type |-> NoList, symbols |-> NoList, timeRange |-> NoRange]
  /\ whereClause = NoWhere
  /\ prevWhere = NoWhere
  /\ timeLogged = <<>>
  /\ nQueries = 0

\* VectorService.query(queryText, options), lines 60-117, called (again)
\* with the same options.
Query ==
  /\ nQueries < MaxQueries
  /\ whereClause' = WhereClause(Conditions(options))
  /\ prevWhere' = whereClause
  /\ timeLogged' = TimeLog(options.timeRange)
  /\ nQueries' = nQueries + 1
  /\ UNCHANGED <<rlVars, apiVars, obsVars, schedVars, opVars, options>>

DayMs == 24 * 60 * 60 * 1000

\* DataController.getRecentData, lines 149-162: a query of the last 24 hours,
\* of one type when the request names one.
GetRecentData(typeParam, nowMs) ==
  /\ nQueries < MaxQueries
  /\ nowMs >= DayMs
  /\ LET o == [type |-> IF typeParam # ""
                          THEN [present |-> TRUE, list |-> <<typeParam>>]
                          ELSE NoList,
               symbols |-> NoList,
               timeRange |-> [present |-> TRUE, start |-> nowMs - DayMs,
                              end |-> nowMs]]
     IN /\ options' = o
        /\ whereClause' = WhereClause(Conditions(o))
        /\ timeLogged' = TimeLog(o.timeRange)
  /\ prevWhere' = NoWhere
  /\ nQueries' = nQueries + 1
  /\ UNCHANGED <<rlVars, apiVars, obsVars, schedVars, opVars>>

(***************************************************************************)
(*                               API ROUTER                                *)
(***************************************************************************)

MaxRouted == 3      \* at most MaxRouted requests enter the router in one behaviour
MaxApiQueries == 2  \* at most MaxApiQueries POST /query requests in one behaviour

Methods == {"GET", "POST"}
SymbolPaths == {"/symbol/AAPL"}
Paths == {"/health", "/query", "/recent", "/stats", "/ingest", "/cache/clear",
          "/unknown"} \cup SymbolPaths

Use(handler) ==
  [kind |-> "use", method |-> "*", path |-> "*", handler |-> handler]
Route(method, path, handler) ==
  [kind |-> "route", method |-> method, path |-> path, handler |-> handler]

\* A router that registers the health route before the limiter.
RouterStackHealthFirst ==
  << Route("GET", "/health", "healthCheck"),
     Use("rateLimitMiddleware"),
     Route("POST", "/query", "query"),
     Route("GET", "/recent", "getRecentData"),
     Route("GET", "/symbol/:symbol", "searchBySymbol"),
     Route("GET", "/stats", "getStats"),
     Route("POST", "/ingest", "triggerIngestion"),
     Route("POST", "/cache/clear", "clearCache") >>

\* createRoutes, routes/index.ts lines 5-27: the router's layers in the order
\* of their registration.
RouterStack ==
  << Use("rateLimitMiddleware"),
     Route("GET", "/health", "healthCheck"),
     Route("POST", "/query", "query"),
     Route("GET", "/recent", "getRecentData"),
     Route("GET", "/symbol/:symbol", "searchBySymbol"),
     Route("GET", "/stats", "getStats"),
     Route("POST", "/ingest", "triggerIngestion"),
     Route("POST", "/cache/clear", "clearCache") >>

\* Express matches a route's path pattern; :symbol matches one segment.
PathMatches(pattern, path) ==
  IF pattern = "/symbol/:symbol" THEN path \in SymbolPaths ELSE pattern = path

\* router.use without a path matches every request.
LayerMatches(layer, method, path) ==
  \/ layer.kind = "use"
  \/ layer.method = method /\ PathMatches(layer.path, path)

\* The router walks its layers in order.  The limiter either answers 429 and
\* never calls next(), or calls next(); a route handler answers the request.
\* A request no layer answers leaves the router (status 404).  trace is the
\* sequence of the handlers run.
RECURSIVE Dispatch(_, _, _, _, _, _, _, _, _, _, _)
Dispatch(stack, i, method, path, key, st, t, w, cap, trace, res) ==
  IF i > Len(stack)
    THEN [trace |-> trace, store |-> st, res |-> res, status |-> 404]
  ELSE IF ~LayerMatches(stack[i], method, path)
    THEN Dispatch(stack, i + 1, method, path, key, st, t, w, cap, trace, res)
  ELSE IF stack[i].kind = "use"
    THEN LET r == Middleware(st, key, t, w, cap)
         IN IF r.res.status = 429
              THEN [trace |-> Append(trace, stack[i].handler),
                    store |-> r.store, res |-> r.res, status |-> 429]
              ELSE Dispatch(stack, i + 1, method, path, key, r.store, t, w,
                            cap, Append(trace, stack[i].handler), r.res)
  ELSE [trace |-> Append(trace, stack[i].handler),
        store |-> st, res |-> res, status |-> 200]

NoRoute == [method |-> "", path |-> "", key |-> "", trace |-> <<>>, status |-> 0]

Limited(trace) == \E i \in DOMAIN trace : trace[i] = "rateLimitMiddleware"

\* One request enters the router.  The limiter and the dispatch are
\* synchronous; the route handler is invoked before any other callback runs.
RouteRequest(method, path, key) ==
  /\ rlReqs < MaxRouted
  /\ LET d == Dispatch(RouterStack, 1, method, path, key, store, now,
                       windowMs, maxRequests, <<>>, NoRes)
         n == Middleware(noSweep.store, key, now, windowMs, maxRequests)
     IN /\ store' = d.store
        /\ rlRes' = IF Limited(d.trace) THEN d.res ELSE rlRes
        /\ rlLog' = IF Limited(d.trace) /\ d.res.status = 200
                      THEN [rlLog EXCEPT ![key] = Append(@, now)]
                      ELSE rlLog
        /\ noSweep' = IF Limited(d.trace)
                        THEN [store |-> n.store, res |-> n.res]
                        ELSE noSweep
        /\ routed' = [method |-> method, path |-> path, key |-> key,
                      trace |-> d.trace, status |-> d.status]
  /\ rlReqs' = rlReqs + 1
  /\ UNCHANGED <<windowMs, maxRequests, now, sweeps, api, memo, nApi,
                 schedVars, opVars, qVars, obsVars>>

(***************************************************************************)
(*                         DATA CONTROLLER: QUERY                          *)
(***************************************************************************)

\* An optional member of the request body: <<>> when missing, <<v>> when given.
Opt(S) == {<<>>} \cup {<<v>> : v \in S}
Given(o) == Len(o) > 0

QueryTexts == {"btc", "eth"}
TypeLists == {<<"news">>}
Limits == {5, 10}
TimeRanges == {[start |-> "2024-01-01", end |-> "2024-01-02"]}
SymbolLists == {<<"BTC">>}

Bodies ==
  [query : Opt(QueryTexts), type : Opt(TypeLists), limit : Opt(Limits),
   timeRange : Opt(TimeRanges), symbols : Opt(SymbolLists)]

DefaultLimit == 10   \* `limit = 10` in the destructuring, line 27
MemoTtl == 300       \* the ttl of cacheService.set, line 75

\* Line 27: const { query, type, limit = 10, timeRange, symbols } = req.body
Destructure(body) ==
  [body EXCEPT !.limit = IF Given(body.limit) THEN body.limit
                                              ELSE <<DefaultLimit>>]

\* Line 29: !query || typeof query !== 'string'
Rejected(body) == ~Given(body.query) \/ body.query[1] = ""

\* JSON.stringify of a string, of an array of strings and of a time range.
JsonString(s) == "\"" \o s \o "\""

RECURSIVE JsonItems(_)
JsonItems(l) ==
  IF l = <<>> THEN ""
  ELSE JsonString(Head(l)) \o (IF Len(l) > 1 THEN "," ELSE "")
                           \o JsonItems(Tail(l))

JsonArray(l) == "[" \o JsonItems(l) \o "]"

JsonRange(r) ==
  "{\"start\":" \o JsonString(r.start) \o ",\"end\":" \o JsonString(r.end) \o "}"

\* JSON.stringify leaves out a member whose value is undefined.
JsonMember(name, o, text) ==
  IF Given(o) THEN "," \o JsonString(name) \o ":" \o text ELSE ""

\* A cache key that leaves the symbols out.
QueryCacheKeyNoSymbols(f) ==
  "query:" \o "{" \o JsonString("query") \o ":" \o JsonString(f.query[1])
    \o JsonMember("type", f.type, IF Given(f.type) THEN JsonArray(f.type[1]) ELSE "")
    \o JsonMember("limit", f.limit, ToString(f.limit[1]))
    \o JsonMember("timeRange", f.timeRange,
                  IF Given(f.timeRange) THEN JsonRange(f.timeRange[1]) ELSE "")
    \o "}"

\* Line 37: `query:${JSON.stringify({ query, type, limit, timeRange, symbols })}`
\* of the destructured filter f.
QueryCacheKey(f) ==
  "query:" \o "{" \o JsonString("query") \o ":" \o JsonString(f.query[1])
    \o JsonMember("type", f.type, IF Given(f.type) THEN JsonArray(f.type[1]) ELSE "")
    \o JsonMember("limit", f.limit, ToString(f.limit[1]))
    \o JsonMember("timeRange", f.timeRange,
                  IF Given(f.timeRange) THEN JsonRange(f.timeRange[1]) ELSE "")
    \o JsonMember("symbols", f.symbols,
                  IF Given(f.symbols) THEN JsonArray(f.symbols[1]) ELSE "")
    \o "}"

ValidBodies == {b \in Bodies : ~Rejected(b)}
QueryKeys == {QueryCacheKey(Destructure(b)) : b \in ValidBodies}

\* What vectorService.query resolves with, or "raise" when it rejects.
ResultSets == {"r1", "r2"}
VectorOutcomes == ResultSets \cup {"raise"}

\* JSON.stringify(response), line 75, and JSON.parse(cached), line 41.
ResponseJson(results, q) ==
  "{\"results\":" \o JsonString(results) \o ",\"query\":" \o JsonString(q) \o "}"
ParseResults(s) ==
  CHOOSE r \in ResultSets : \E q \in QueryTexts : ResponseJson(r, q) = s

ApiIdle ==
  [pc |-> "idle", body |-> [query |-> <<>>, type |-> <<>>, limit |-> <<>>,
                            timeRange |-> <<>>, symbols |-> <<>>],
   key |-> "", sent |-> FALSE, status |-> 0, cached |-> FALSE, results |-> "",
   nGet |-> 0, nVector |-> 0, nSet |-> 0, setKey |-> "", getErr |-> FALSE]

\* The state of the router and of the controller before any request.
ApiQuiet ==
  /\ routed = NoRoute
  /\ api = ApiIdle
  /\ memo = [k \in QueryKeys |-> Absent]
  /\ nApi = 0

\* Lines 23-38: the handler starts; it answers 400 without a lookup, or
\* builds the key and awaits cacheService.get(cacheKey).
CallQuery(body) ==
  /\ api.pc = "idle"
  /\ nApi < MaxApiQueries
  /\ nApi' = nApi + 1
  /\ api' = IF Rejected(body)
              THEN [ApiIdle EXCEPT !.pc = "done", !.body = body, !.status = 400]
              ELSE [ApiIdle EXCEPT !.pc = "get", !.body = body,
                                   !.key = QueryCacheKey(Destructure(body)),
                                   !.sent = isConnected, !.nGet = 1]
  /\ UNCHANGED <<rlVars, obsVars, schedVars, opVars, qVars, routed, memo>>

\* JSON.parse accepts the payloads the handler writes; anything else here is
\* a payload that fails to parse.
Parses(s) == \E r \in ResultSets, q \in QueryTexts : ResponseJson(r, q) = s
CorruptPayload == "{bad"

\* A handler that treats a payload it cannot parse as a miss.
AfterQueryGetRecovers(a, v, ioErr) ==
  IF Truthy(v) /\ Parses(v)
    THEN [a EXCEPT !.pc = "done", !.status = 200, !.cached = TRUE,
                   !.getErr = ioErr, !.results = ParseResults(v)]
    ELSE [a EXCEPT !.pc = "vector", !.getErr = ioErr, !.nVector = @ + 1]

\* Lines 38-59 and 80-86: a truthy value is parsed and answered with
\* cached: true; JSON.parse throwing goes to the catch, which answers 500;
\* anything falsy goes on to vectorService.query.
AfterQueryGet(a, v, ioErr) ==
  IF ~Truthy(v)
    THEN [a EXCEPT !.pc = "vector", !.getErr = ioErr, !.nVector = @ + 1]
  ELSE IF Parses(v)
    THEN [a EXCEPT !.pc = "done", !.status = 200, !.cached = TRUE,
                   !.getErr = ioErr, !.results = ParseResults(v)]
  ELSE [a EXCEPT !.pc = "done", !.status = 500, !.getErr = ioErr]

\* `await this.cacheService.get(cacheKey)` resumes.
QueryGetReply ==
  /\ api.pc = "get"
  /\ \E ioErr \in BOOLEAN :
       api' = AfterQueryGet(api, CacheGet(api.sent, ioErr, memo[api.key]), ioErr)
  /\ UNCHANGED <<rlVars, obsVars, schedVars, opVars, qVars, routed, memo, nApi>>

\* Lines 59-75 and 80-86: the store collaborator returns and the response is
\* written with cacheService.set(cacheKey, ..., 300), or it raises and the
\* catch answers 500.
QueryVectorReturn ==
  /\ api.pc = "vector"
  /\ \E out \in VectorOutcomes :
       api' = IF out = "raise"
                THEN [api EXCEPT !.pc = "done", !.status = 500]
                ELSE [api EXCEPT !.pc = "set", !.results = out,
                                 !.sent = isConnected, !.nSet = @ + 1,
                                 !.setKey = api.key]
  /\ UNCHANGED <<rlVars, obsVars, schedVars, opVars, qVars, routed, memo, nApi>>

\* Lines 75-77: the write returns (its result is ignored) and the response
\* is sent.
QuerySetReply ==
  /\ api.pc = "set"
  /\ \E ioErr \in BOOLEAN, applied \in BOOLEAN :
       LET s == CacheSet(api.sent, ioErr, applied, api.setKey,
                         ResponseJson(api.results, api.body.query[1]),
                         <<MemoTtl>>, memo)
       IN memo' = s.db
  /\ api' = [api EXCEPT !.pc = "done", !.status = 200]
  /\ UNCHANGED <<rlVars, obsVars, schedVars, opVars, qVars, routed, nApi>>

\* The handler's promise settles.
QueryReturn ==
  /\ api.pc = "done"
  /\ api' = ApiIdle
  /\ UNCHANGED <<rlVars, obsVars, schedVars, opVars, qVars, routed, memo, nApi>>

\* The backing store expires a memoized response.
MemoExpire(k) ==
  /\ memo[k].present /\ memo[k].ttl > 0
  /\ memo' = [memo EXCEPT ![k] = Absent]
  /\ UNCHANGED <<rlVars, obsVars, schedVars, opVars, qVars, routed, api, nApi>>

MaxCorrupt == 1     \* at most MaxCorrupt unparsable payloads in the cache at a time

\* Another writer of the shared backing store leaves a payload that is no
\* JSON under a query key, with or without an expiry.
MemoCorrupt(k) ==
  /\ Cardinality({j \in QueryKeys : memo[j].present /\ ~Parses(memo[j].value)})
       < MaxCorrupt
  /\ \E ttl \in {0, MemoTtl} :
       memo' = [memo EXCEPT ![k] =
                  [present |-> TRUE, value |-> CorruptPayload, ttl |-> ttl]]
  /\ UNCHANGED <<rlVars, obsVars, schedVars, opVars, qVars, routed, api, nApi>>

(***************************************************************************)
(*                              SPECIFICATIONS                             *)
(***************************************************************************)

NoClock == [day |-> -1, hour |-> -1, minute |-> -1]

\* Nothing has been observed yet.
ObsQuiet ==
  /\ rlStats = NoStats
  /\ tickClock = NoClock

\* The rate limiter as constructed with the configured defaults scaled down,
\* for the specifications that do not exercise it.
RLQuiet ==
  /\ windowMs = 1
  /\ maxRequests = 1
  /\ store = [k \in Keys |-> NoEntry]
  /\ now = 0
  /\ rlRes = NoRes
  /\ rlReqs = 0
  /\ rlLog = [k \in Keys |-> <<>>]
  /\ sweeps = <<>>
  /\ noSweep = [store |-> [k \in Keys |-> NoEntry], res |-> NoRes]

RLNext ==
  \/ \E k \in Keys : Admit(k)
  \/ Sweep
  \/ ResetStore
  \/ Tick

\* The rate limiter under requests, sweeps, resets and the passing of time.
InitRL == RLInit /\ Constructed /\ hasDestroy = FALSE /\ OpsQuiet /\ QueryQuiet /\ ApiQuiet /\ ObsQuiet

SpecRL == InitRL /\ [][RLNext]_vars

RegNext ==
  \/ Start
  \/ Stop
  \/ \E id \in DOMAIN triggers : TickFire(id, MaxRegRuns)
  \/ \E r \in RunIds : DedupCheck(r)
  \/ \E r \in RunIds : FetchReturn(r)
  \/ \E r \in RunIds : StoreReturn(r)
  \/ \E r \in RunIds : SetReturn(r)
  \/ RedisUp
  \/ RedisDown

\* The registry of the scheduler under start, stop and the ticks of its
\* triggers, from construction, for either build of the cron task object.
InitReg == RLQuiet /\ Constructed /\ hasDestroy \in BOOLEAN /\ OpsQuiet /\ QueryQuiet /\ ApiQuiet /\ ObsQuiet

SpecReg == InitReg /\ [][RegNext]_vars

\* The state after the boot sequence has called start() once.
Started ==
  LET reg == StartReg([tasks |-> [n \in TaskNames |-> 0], triggers |-> <<>>])
  IN /\ scheduledTasks = reg.tasks
     /\ triggers = reg.triggers
     /\ nStarts = 1
     /\ lastCall = [op |-> "start", arg |-> "", error |-> "none"]
     /\ runs = [r \in RunIds |-> IdleRun]
     /\ allPc = "idle"
     /\ branches = [t \in TaskNames |-> IdleRun]
     /\ redis = [k \in CacheKeys |-> Absent]
     /\ isConnected = FALSE

PipeNext ==
  \/ \E id \in DOMAIN triggers : TickFire(id, MaxRuns)
  \/ \E n \in TaskNames \cup UnknownNames : RunOnce(n, MaxRuns, Days \X Hours)
  \/ \E r \in RunIds : DedupCheck(r)
  \/ \E r \in RunIds : FetchReturn(r)
  \/ \E r \in RunIds : StoreReturn(r)
  \/ \E r \in RunIds : SetReturn(r)
  \/ RedisUp
  \/ RedisDown
  \/ \E k \in CacheKeys : Expire(k)

\* The pipelines under scheduled ticks and runOnce of single task names, on a
\* started scheduler (stop() is not called here).
InitPipe == RLQuiet /\ Started /\ hasDestroy = FALSE /\ OpsQuiet /\ QueryQuiet /\ ApiQuiet /\ ObsQuiet

SpecPipe == InitPipe /\ [][PipeNext]_vars

AllNext ==
  \/ RunOnce("all", MaxRuns, {SaturdayNoon})
  \/ \E t \in TaskNames : BranchDedup(t)
  \/ \E t \in TaskNames : BranchFetch(t)
  \/ \E t \in TaskNames : BranchStore(t)
  \/ \E t \in TaskNames : BranchSet(t)
  \/ AllReturn

\* The state after the boot sequence has connected the cache.
Booted ==
  /\ scheduledTasks = [n \in TaskNames |-> 0]
  /\ triggers = <<>>
  /\ nStarts = 0
  /\ lastCall = NoCall
  /\ runs = [r \in RunIds |-> IdleRun]
  /\ allPc = "idle"
  /\ branches = [t \in TaskNames |-> IdleRun]
  /\ redis = [k \in CacheKeys |-> Absent]
  /\ isConnected = TRUE

\* One runOnce("all") and its six concurrent branches, dispatched outside
\* market hours with the cache connected; cache commands may still fail.
InitAll == RLQuiet /\ Booted /\ hasDestroy = FALSE /\ OpsQuiet /\ QueryQuiet /\ ApiQuiet /\ ObsQuiet

SpecAll == InitAll /\ [][AllNext]_vars

CacheNext ==
  \/ \E k \in OpKeys : CallGet(k)
  \/ GetReply
  \/ \E k \in OpKeys, v \in Payloads, t \in TtlArgs : CallSet(k, v, t)
  \/ SetReply
  \/ \E k \in OpKeys : CallDel(k)
  \/ DelReply
  \/ \E k \in OpKeys : CallExists(k)
  \/ ExistsReply
  \/ \E p \in Patterns : CallKeys(p)
  \/ KeysReply
  \/ \E p \in Patterns : CallFlushPattern(p)
  \/ FlushKeysReply
  \/ FlushDelReply
  \/ \E k \in OpKeys, t \in TtlArgs : CallGetOrSet(k, t)
  \/ GosGetReply
  \/ GosDelReply
  \/ GosFetcherReturn
  \/ GosSetReply
  \/ CallConnect
  \/ ConnectReply
  \/ CallDisconnect
  \/ DisconnectReply
  \/ OpReturn
  \/ RedisUp
  \/ RedisDown
  \/ \E k \in OpKeys : Expire(k)

InitCache ==
  /\ RLQuiet /\ QueryQuiet /\ Constructed /\ hasDestroy = FALSE
  /\ CacheConstructed /\ emitsDisconnect \in BOOLEAN /\ ApiQuiet /\ ObsQuiet

\* The cache service from construction: one operation at a time, the events
\* of the client and the expiry of keys in between, for either build of the
\* redis client.
SpecCache == InitCache /\ [][CacheNext]_vars

QueryNext ==
  \/ Query
  \/ \E t \in TypeTags \cup {""}, n \in Instants : GetRecentData(t, n)

InitQuery ==
  RLQuiet /\ Constructed /\ hasDestroy = FALSE /\ OpsQuiet /\ QueryInit /\ ApiQuiet /\ ObsQuiet

\* The where clause of VectorService.query, for every options value within
\* the bounds and for the queries of getRecentData.
SpecQuery == InitQuery /\ [][QueryNext]_vars

RouterNext ==
  \/ \E m \in Methods, p \in Paths, k \in Keys : RouteRequest(m, p, k)
  \/ Tick

\* The API router in front of the handlers: requests of every method and
\* path, and the passing of time.
InitRouter ==
  RLInit /\ Constructed /\ hasDestroy = FALSE /\ OpsQuiet /\ QueryQuiet /\ ApiQuiet /\ ObsQuiet

SpecRouter == InitRouter /\ [][RouterNext]_vars

MemoNext ==
  \/ \E b \in Bodies : CallQuery(b)
  \/ QueryGetReply
  \/ QueryVectorReturn
  \/ QuerySetReply
  \/ QueryReturn
  \/ \E k \in QueryKeys : MemoExpire(k)
  \/ RedisUp
  \/ RedisDown

\* DataController.query, one request at a time, over a cache whose connection
\* comes and goes and whose entries expire.
InitMemo ==
  RLQuiet /\ Constructed /\ hasDestroy = FALSE /\ OpsQuiet /\ QueryQuiet /\ ApiQuiet /\ ObsQuiet

SpecMemo == InitMemo /\ [][MemoNext]_vars

RaceTasks == {"news", "trends"}

RaceNext ==
  \/ \E n \in RaceTasks : RunOnce(n, MaxRuns, {SaturdayNoon})
  \/ \E r \in RunIds : DedupCheck(r)
  \/ \E r \in RunIds : FetchReturn(r)
  \/ \E r \in RunIds : StoreReturn(r)
  \/ \E r \in RunIds : SetReturn(r)
  \/ RedisUp
  \/ RedisDown

\* Manual runs of single pipelines whose collaborator calls all settle: the
\* event loop delivers the result of every awaited call.
InitRace ==
  RLQuiet /\ Started /\ hasDestroy = FALSE /\ OpsQuiet /\ QueryQuiet /\ ApiQuiet /\ ObsQuiet

RaceFair ==
  \A r \in RunIds :
    /\ WF_vars(DedupCheck(r))
    /\ WF_vars(FetchReturn(r))
    /\ WF_vars(StoreReturn(r))
    /\ WF_vars(SetReturn(r))

SpecRace == InitRace /\ [][RaceNext]_vars /\ RaceFair

StatsNext ==
  \/ \E k \in Keys : Admit(k)
  \/ Sweep
  \/ ResetStore
  \/ Tick
  \/ GetStatsCall

\* The rate limiter with its introspection: requests, sweeps, resets, the
\* passing of time and calls of getStats().
InitStats ==
  RLInit /\ Constructed /\ hasDestroy = FALSE /\ OpsQuiet /\ QueryQuiet /\ ApiQuiet /\ ObsQuiet

SpecStats == InitStats /\ [][StatsNext]_vars

GateNext ==
  \/ \E id \in DOMAIN triggers, d \in Days, h \in Hours, m \in StocksMinutes :
       StocksTickAt(id, MaxRegRuns, d, h, m)
  \/ \E r \in RunIds : DedupCheck(r)
  \/ \E r \in RunIds : FetchReturn(r)
  \/ \E r \in RunIds : StoreReturn(r)
  \/ \E r \in RunIds : SetReturn(r)
  \/ RedisUp
  \/ RedisDown

\* The stocks callback of a started scheduler at every clock reading at which
\* its cron expression fires.
InitGate ==
  RLQuiet /\ Started /\ hasDestroy = FALSE /\ OpsQuiet /\ QueryQuiet /\ ApiQuiet /\ ObsQuiet

SpecGate == InitGate /\ [][GateNext]_vars

\* The request bodies that set only the query text and the limit.
PlainBodies ==
  {b \in Bodies : ~Given(b.type) /\ ~Given(b.timeRange) /\ ~Given(b.symbols)}
PlainKeys == {QueryCacheKey(Destructure(b)) : b \in PlainBodies \cap ValidBodies}

CorruptNext ==
  \/ \E b \in PlainBodies : CallQuery(b)
  \/ QueryGetReply
  \/ QueryVectorReturn
  \/ QuerySetReply
  \/ QueryReturn
  \/ \E k \in PlainKeys : MemoExpire(k)
  \/ \E k \in PlainKeys : MemoCorrupt(k)
  \/ RedisUp
  \/ RedisDown

\* DataController.query over a cache in which a payload can be corrupt.
InitCorrupt ==
  RLQuiet /\ Constructed /\ hasDestroy = FALSE /\ OpsQuiet /\ QueryQuiet /\ ApiQuiet /\ ObsQuiet

SpecCorrupt == InitCorrupt /\ [][CorruptNext]_vars

(***************************************************************************)
(*                                 CLAIMS                                  *)
(***************************************************************************)

\* History: the requests of key admitted inside the window of its entry.
AdmittedInWindow(key) ==
  Cardinality({i \in DOMAIN rlLog[key] :
                 /\ rlLog[key][i] >= store[key].resetTime - windowMs
                 /\ rlLog[key][i] < store[key].resetTime})

\* The step is a middleware call for key.
IsAdmit(key) == rlReqs' = rlReqs + 1 /\ rlRes'.key = key

\* C1: after exactly N admitted requests inside one window the next request
\* with now < resetTime is denied (429, entry untouched); the first request
\* with now >= resetTime is admitted (N >= 1) and leaves the entry with
\* count = 1 and resetTime = now + windowMs.
C1_AdmitWindow ==
  [][\A k \in Keys :
       (IsAdmit(k) /\ store[k] # NoEntry) =>
         /\ (now < store[k].resetTime /\ AdmittedInWindow(k) = maxRequests)
              => rlRes'.status = 429
         /\ (now >= store[k].resetTime /\ maxRequests >= 1)
              => /\ rlRes'.status = 200
                 /\ store'[k] = [count |-> 1, resetTime |-> now + windowMs]]_vars

\* C1 witness: a request was denied inside a window that had admitted N >= 1
\* requests, and later the window was reopened by an admitted request.
C1_Witness ==
  \E k \in Keys :
    /\ maxRequests >= 1
    /\ rlRes.key = k /\ rlRes.status = 200
    /\ store[k] = [count |-> 1, resetTime |-> now + windowMs]
    /\ Len(rlLog[k]) = maxRequests + 1
    /\ rlReqs >= maxRequests + 2

\* C2: no entry ever has count > maxRequests.
C2_CountWithinCap ==
  \A k \in Keys : store[k] # NoEntry => store[k].count <= maxRequests

\* C2 witness: two fingerprints are at the cap, one of them in a window that
\* was reopened across the reset boundary, and the latest request was denied.
C2_Witness ==
  /\ maxRequests >= 1
  /\ \A k \in Keys : store[k] # NoEntry /\ store[k].count = maxRequests
  /\ \E k \in Keys : store[k].resetTime > windowMs
  /\ rlRes.status = 429

\* The invocations, of the slots and of the fan-out, in one collection.
AllRuns == {runs[r] : r \in RunIds} \cup {branches[t] : t \in TaskNames}
ManualKinds == {"manual", "all"}

\* C3: a manual run of a gated task (runOnce("stocks"), or the stocks branch
\* of runOnce("all")) dispatched while the market-hours gate is closed calls
\* neither fetch nor store; and no manual run fetches without having made
\* the dedup lookup first.
C3_ManualRespectsGate ==
  \A run \in AllRuns :
    run.kind \in ManualKinds =>
      /\ (Gated(run.task) /\ ~run.gateOpen) => (run.nFetch = 0 /\ run.nStore = 0)
      /\ run.nFetch > 0 => (run.nGet = 1 /\ ~run.hit)

\* C4 as stated: an invocation whose dedup lookup finds the marker calls
\* neither fetch nor store; an invocation whose lookup finds none and whose
\* fetch returns items has made, when it ends, exactly one fetch call, one
\* store call and one marker write.
C4_ExactlyOnceAsStated ==
  \A r \in RunIds :
    /\ runs[r].hit => (runs[r].nFetch = 0 /\ runs[r].nStore = 0 /\ runs[r].nSet = 0)
    /\ (runs[r].pc = "done" /\ ~runs[r].hit /\ runs[r].fetched = "items")
         => (runs[r].nFetch = 1 /\ runs[r].nStore = 1 /\ runs[r].nSet = 1)

\* C4 amended: as C4, but the one marker write is made when the store call
\* returns; when the store call raises, no marker write is made.
C4_ExactlyOnce ==
  \A r \in RunIds :
    /\ runs[r].hit => (runs[r].nFetch = 0 /\ runs[r].nStore = 0 /\ runs[r].nSet = 0)
    /\ (runs[r].pc = "done" /\ ~runs[r].hit /\ runs[r].fetched = "items")
         => /\ runs[r].nFetch = 1
            /\ runs[r].nStore = 1
            /\ runs[r].out \in {"stored", "storeErr"}
            /\ runs[r].out = "stored" => runs[r].nSet = 1
            /\ runs[r].out = "storeErr" => runs[r].nSet = 0

\* C4 witness: one invocation stored its items and wrote the marker, and a
\* later invocation of the same pipeline found the marker and skipped.
C4_Witness ==
  /\ runs[1].out = "stored" /\ runs[1].nSet = 1
  /\ runs[2].task = runs[1].task
  /\ runs[2].pc = "done" /\ runs[2].hit /\ runs[2].nFetch = 0

\* C5: runOnce("all") starts all six branches; it returns only when every
\* branch has settled; no branch rejects and the call raises nothing; a
\* branch that stored its items has made its marker write, and a branch
\* whose fetch or store raised has made none and left no marker.
C5_FanOutIsolated ==
  /\ allPc # "idle" =>
       /\ lastCall = [op |-> "runOnce", arg |-> "all", error |-> "none"]
       /\ \A t \in TaskNames :
            /\ branches[t].task = t /\ branches[t].nGet = 1
            /\ ~branches[t].thrown
            /\ branches[t].out = "stored" =>
                 (branches[t].fetched = "items" /\ branches[t].nSet = 1)
            /\ branches[t].out \in {"fetchErr", "storeErr"} =>
                 /\ branches[t].nSet = 0
                 /\ branches[t].errLogged
                 /\ ~redis[CacheKey(t)].present
  /\ allPc = "returned" => \A t \in TaskNames : branches[t].pc = "done"

\* C5 witness: the call has returned with one branch failed at fetch, one at
\* store, and the four others having stored their items and left a marker.
C5_Witness ==
  /\ allPc = "returned"
  /\ branches["news"].out = "fetchErr"
  /\ branches["stocks"].out = "storeErr"
  /\ \A t \in TaskNames \ {"news", "stocks"} :
       branches[t].out = "stored" /\ redis[CacheKey(t)].present

\* C6: a runOnce call with a name outside the six task names and "all"
\* fails with UnknownTask and executes no pipeline step: no invocation is
\* started or advanced and the cache is not touched.
C6_UnknownTask ==
  [][(lastCall' # lastCall /\ lastCall'.op = "runOnce"
        /\ lastCall'.arg \notin TaskNames \cup {"all"})
       => /\ lastCall'.error = "UnknownTask"
          /\ UNCHANGED <<runs, allPc, branches, redis, isConnected, regVars>>]_vars

\* C6 witness: runOnce("bogus") has failed while an invocation is in flight.
C6_Witness ==
  /\ lastCall = [op |-> "runOnce", arg |-> "bogus", error |-> "UnknownTask"]
  /\ runs[1].pc = "fetch"
  /\ runs[2].pc = "idle"

\* The step resumes invocation r at its dedup lookup.
IsDedupStep(r) == runs[r].pc = "get" /\ runs'[r].pc # "get"
\* The step ends invocation r with a raising fetch or store.
IsFailStep(r) ==
  runs[r].pc \in {"fetch", "store"} /\ runs'[r].out \in {"fetchErr", "storeErr"}

\* C7: when the fetch or the store raises, the invocation ends without
\* rejecting (the error is logged), it has made no marker write and the step
\* leaves the cache as it was; and an invocation whose dedup lookup finds no
\* marker in the store calls fetch.
C7_FailureRetries ==
  [][\A r \in RunIds :
       /\ IsFailStep(r) =>
            /\ runs'[r].pc = "done" /\ ~runs'[r].thrown /\ runs'[r].errLogged
            /\ runs'[r].nSet = 0
            /\ redis' = redis
       /\ (IsDedupStep(r) /\ ~redis[CacheKey(runs[r].task)].present) =>
            (runs'[r].pc = "fetch" /\ runs'[r].nFetch = 1)]_vars

\* C7 witness: the store raised in one invocation, no marker exists, and the
\* next invocation of the same pipeline has called fetch.
C7_Witness ==
  /\ runs[1].out = "storeErr"
  /\ runs[2].task = runs[1].task
  /\ ~redis[CacheKey(runs[1].task)].present
  /\ runs[2].pc = "fetch" /\ runs[2].nFetch = 1

\* C8: a scheduled tick of the gated task with the gate closed ends at once:
\* no pipeline step, no error logged, nothing thrown, whatever the cache
\* holds; with the gate open the tick runs the pipeline: the dedup lookup,
\* the fetch when no marker is found and the store when items are fetched.
C8_GatedTick ==
  \A r \in RunIds :
    (runs[r].kind = "tick" /\ Gated(runs[r].task)) =>
      /\ ~runs[r].gateOpen =>
           /\ runs[r].pc = "done" /\ runs[r].out = "gateSkip"
           /\ runs[r].nGet = 0 /\ runs[r].nFetch = 0
           /\ runs[r].nStore = 0 /\ runs[r].nSet = 0
           /\ ~runs[r].errLogged /\ ~runs[r].thrown
      /\ runs[r].gateOpen =>
           /\ runs[r].nGet = 1 /\ runs[r].out # "gateSkip"
           /\ (runs[r].pc # "get" /\ ~runs[r].hit) => runs[r].nFetch = 1
           /\ runs[r].fetched = "items" => runs[r].nStore = 1

\* C8 witness: a stocks tick inside market hours fetched and stored, and a
\* later one outside market hours was skipped while the marker existed.
C8_Witness ==
  /\ runs[1].kind = "tick" /\ runs[1].task = "stocks" /\ runs[1].gateOpen
  /\ runs[1].out = "stored" /\ runs[1].nFetch = 1 /\ runs[1].nStore = 1
  /\ redis[CacheKey("stocks")].present
  /\ runs[2].kind = "tick" /\ runs[2].task = "stocks" /\ ~runs[2].gateOpen
  /\ runs[2].out = "gateSkip"

\* The triggers that are active.
ActiveTriggers == {i \in DOMAIN triggers : triggers[i].status = "scheduled"}

\* C9: start() called right after stop() leaves the six task names
\* registered, each with its one active trigger, and no other trigger active.
C9_StopStartRestores ==
  [][(lastCall.op = "stop" /\ lastCall'.op = "start") =>
       /\ \A n \in TaskNames :
            /\ scheduledTasks'[n] \in DOMAIN triggers'
            /\ triggers'[scheduledTasks'[n]] = [name |-> n, status |-> "scheduled"]
       /\ {i \in DOMAIN triggers' : triggers'[i].status = "scheduled"}
            = {scheduledTasks'[n] : n \in TaskNames}]_vars

\* C10: once stop() has been called (once or repeatedly, started or not) it
\* has raised nothing, the registry is empty and no trigger is active.
C10_StopClears ==
  lastCall.op = "stop" =>
    /\ lastCall.error = "none"
    /\ \A n \in TaskNames : scheduledTasks[n] = 0
    /\ ActiveTriggers = {}

\* ---------------------------------------------------------------------------
\* C11: getOrSet on a miss, when the cache is disconnected at the write or the
\* write fails, has called the fetcher exactly once and returns the value the
\* fetcher returned; the failed write raises nothing to the caller.
C11_ComputeOnWriteFailure ==
  (op.name = "getOrSet" /\ op.pc = "done" /\ ~Truthy(op.cached)
     /\ op.nSet = 1 /\ ~op.setOk)
    => /\ op.nFetch = 1
       /\ op.fresh \in Data
       /\ op.data = op.fresh
       /\ ~op.raised

\* A miss whose write was sent to the backing store and rejected.
C11_Witness ==
  /\ op.name = "getOrSet" /\ op.pc = "done" /\ ~Truthy(op.cached)
  /\ op.setSent /\ op.ioErr /\ ~op.setOk
  /\ op.data \in Data

\* ---------------------------------------------------------------------------
\* C12: getOrSet on a stored payload that does not decode calls del for the
\* key once (the key is gone when del succeeds), then calls the fetcher
\* exactly once, calls set once with the new value (stored when set succeeds)
\* and returns the new value; get is called once only.
C12_CorruptRecomputesOnce ==
  /\ (op.name = "getOrSet" /\ op.corrupt /\ op.pc \in {"fetch", "set", "done"})
       => op.nGet = 1 /\ op.nDel = 1 /\ op.nFetch = 1
  /\ (op.name = "getOrSet" /\ op.corrupt /\ op.pc = "fetch" /\ op.delOk)
       => ~redis[op.key].present
  /\ (op.name = "getOrSet" /\ op.corrupt /\ op.pc = "done" /\ ~op.raised)
       => /\ op.nSet = 1
          /\ op.fresh \in Data
          /\ op.data = op.fresh
          /\ (op.setOk /\ redis[op.key].present
                => redis[op.key].value = Serialize(op.fresh))

\* A corrupt payload was deleted, recomputed and rewritten.
C12_Witness ==
  /\ op.name = "getOrSet" /\ op.pc = "done" /\ op.corrupt
  /\ op.cached = "{bad" /\ op.delOk /\ op.setOk
  /\ redis[op.key].present /\ redis[op.key].value = Serialize(op.data)

\* ---------------------------------------------------------------------------
\* C13: get(key) raises nothing; disconnected, it returns null without handing
\* a command to the client; when client.get rejects, it returns null.
C13_GetNeverRaises ==
  (op.name = "get" /\ op.pc = "done")
    => /\ ~op.raised
       /\ (~op.sent => op.value = Null /\ op.nCmd = 0)
       /\ (op.ioErr => op.value = Null)
       /\ (op.value # Null => op.value \in Payloads)

\* client.get rejected for a key the backing store holds.
C13_Witness ==
  /\ op.name = "get" /\ op.pc = "done" /\ op.sent /\ op.ioErr
  /\ redis[op.key].present /\ op.value = Null

\* ---------------------------------------------------------------------------
\* C14: set(key, value, ttl) with ttl omitted or 0 stores the value without
\* expiry and with a positive ttl stores it with that expiry; it returns true
\* exactly when the command was sent and accepted, false (raising nothing)
\* when disconnected or when the client rejects, and when disconnected the
\* backing store is left as it was.
C14_SetTtlAndFailure ==
  [][/\ (op.name = "set" /\ op.pc = "wait" /\ op'.pc = "done" /\ op'.ok)
          => redis'[op.key] =
               [present |-> TRUE, value |-> op.arg,
                ttl |-> IF op.ttl # <<>> /\ op.ttl[1] > 0
                          THEN op.ttl[1] ELSE 0]
     /\ (op'.name = "set" /\ op'.pc = "done")
          => /\ ~op'.raised
             /\ op'.ok = (op'.sent /\ ~op'.ioErr)
     /\ (op = OpIdle /\ op'.name = "set" /\ ~op'.sent)
          => /\ op'.pc = "done" /\ ~op'.ok /\ op'.nCmd = 0
             /\ redis' = redis]_vars

\* A successful set with ttl 0: the entry has no expiry.
C14_Witness ==
  /\ op.name = "set" /\ op.pc = "done" /\ op.ok /\ op.ttl = <<0>>
  /\ redis[op.key] = [present |-> TRUE, value |-> op.arg, ttl |-> 0]

\* ---------------------------------------------------------------------------
\* C15: del, exists, keys and flushPattern raise nothing; disconnected or on a
\* rejected command they return false, false, the empty list and 0; and
\* disconnected they hand no command to the client and leave the backing
\* store as it was.
C15_OpsDegrade ==
  [][(op'.name \in {"del", "exists", "keys", "flushPattern"}
        /\ op.pc # "done" /\ op'.pc = "done")
       => /\ ~op'.raised
          /\ (~op'.sent \/ op'.ioErr)
               => /\ (op'.name \in {"del", "exists"} => ~op'.ok)
                  /\ (op'.name = "keys" => op'.found = {})
                  /\ (op'.name = "flushPattern" => op'.count = 0)
          /\ ~op'.sent => (op'.nCmd = 0 /\ redis' = redis)]_vars

\* client.del rejected for a key the backing store still holds.
C15_Witness ==
  /\ op.name = "del" /\ op.pc = "done" /\ op.sent /\ op.ioErr /\ ~op.ok
  /\ redis[op.key].present

\* ---------------------------------------------------------------------------
\* C16: isConnected is true when connect() has succeeded and false when
\* disconnect() has completed, and an operation called while the client is
\* closed hands no command to it.
C16_ConnectedFollowsLifecycle ==
  [][/\ (op.name = "connect" /\ op.pc = "wait" /\ op'.pc = "done"
           /\ ~op'.raised) => isConnected'
     /\ (op.name = "disconnect" /\ op.pc = "wait" /\ op'.pc = "done")
          => ~isConnected'
     /\ (op = OpIdle /\ ~clientOpen
           /\ op'.name \in {"get", "set", "del", "exists", "keys",
                            "flushPattern", "getOrSet"})
          => op'.nCmd = 0]_vars

\* ---------------------------------------------------------------------------
\* Helpers for the claims about the where clause.
Compiled == nQueries > 0

\* An array option restricts its dimension when it is given and non-empty.
ListGiven(d) == d.present /\ Len(d.list) > 0

PresentDims(o) ==
  (IF ListGiven(o.type) THEN 1 ELSE 0) + (IF ListGiven(o.symbols) THEN 1 ELSE 0)
    + (IF o.timeRange.present THEN 1 ELSE 0)

\* The per-dimension conditions of the compiled clause, in their order.
TopConditions ==
  IF whereClause.op = "and" THEN whereClause.children
  ELSE IF whereClause.op \in {"none", "pending"} THEN <<>>
  ELSE <<whereClause>>

NodeField(n) ==
  IF n.op = "or" /\ Len(n.children) > 0 THEN n.children[1].field ELSE n.field

DimRank(field) ==
  CASE field = "type" -> 1 [] field = "timestamp" -> 2 [] field = "symbol" -> 3
    [] OTHER -> 0

\* ---------------------------------------------------------------------------
\* C17: the compiled clause is none when no dimension is present, the bare
\* Equals when one dimension is present with one value, and an And of the
\* per-dimension conditions when two or more dimensions are present;
\* {types:[crypto], symbols:[BTC,ETH]} compiles to
\* And(Equals(type,crypto), Or(Equals(symbol,BTC), Equals(symbol,ETH))).
C17_CompilerShapes ==
  Compiled =>
    /\ (PresentDims(options) = 0 => whereClause = EmptyClause)
    /\ (PresentDims(options) = 1 /\ ListGiven(options.type)
          /\ Len(options.type.list) = 1
          => whereClause = Equals("type", options.type.list[1]))
    /\ (PresentDims(options) = 1 /\ ListGiven(options.symbols)
          /\ Len(options.symbols.list) = 1
          => whereClause = Equals("symbol", options.symbols.list[1]))
    /\ (PresentDims(options) >= 2
          => /\ whereClause.op = "and"
             /\ Len(whereClause.children) >= PresentDims(options))
    /\ (options = [type |-> [present |-> TRUE, list |-> <<"crypto">>],
                   symbols |-> [present |-> TRUE, list |-> <<"BTC", "ETH">>],
                   timeRange |-> NoRange]
          => whereClause =
               And(<<Equals("type", "crypto"),
                     Or(<<Equals("symbol", "BTC"), Equals("symbol", "ETH")>>)>>))

\* ---------------------------------------------------------------------------
\* C18: compiling the same options again gives the identical clause; the
\* children of an Or are the Equals of the array's values in the array's
\* order; the conditions under And come in the order type, timestamp, symbol.
C18_DeterministicOrder ==
  Compiled =>
    /\ (prevWhere # NoWhere => prevWhere = whereClause)
    /\ \A i \in DOMAIN TopConditions :
         LET n == TopConditions[i]
             d == IF NodeField(n) = "type" THEN options.type
                  ELSE options.symbols
         IN n.op = "or" =>
              /\ Len(n.children) = Len(d.list)
              /\ \A j \in DOMAIN n.children :
                   n.children[j] = Equals(NodeField(n), d.list[j])
    /\ \A i, j \in DOMAIN TopConditions :
         i < j => DimRank(NodeField(TopConditions[i]))
                    < DimRank(NodeField(TopConditions[j]))

\* The same two-dimension options compiled twice, with arrays that are not in
\* alphabetical order.
C18_Witness ==
  /\ nQueries = 2 /\ prevWhere # NoWhere
  /\ options.type.list = <<"news", "crypto">>
  /\ options.symbols.list = <<"ETH", "BTC">>
  /\ whereClause.op = "and"
  /\ whereClause.children[2].children[1] = Equals("symbol", "ETH")

\* ---------------------------------------------------------------------------
\* C19: with a time range in the options, the compiled clause holds the two
\* conditions timestamp >= start and timestamp <= end, in epoch seconds, among
\* its per-dimension conditions.
C19_TimeRangeBounds ==
  (Compiled /\ options.timeRange.present) =>
    /\ \E i \in DOMAIN TopConditions :
         TopConditions[i] =
           Gte("timestamp", EpochSeconds(options.timeRange.start))
    /\ \E i \in DOMAIN TopConditions :
         TopConditions[i] =
           Lte("timestamp", EpochSeconds(options.timeRange.end))

\* ---------------------------------------------------------------------------
\* C20: an array option that is absent or empty, and an absent time range,
\* put no condition on their field; no Or and no And of the compiled clause
\* has zero children.
C20_AbsentDimensionUnrestricted ==
  Compiled =>
    /\ (~ListGiven(options.type)
          => \A i \in DOMAIN TopConditions :
               NodeField(TopConditions[i]) # "type")
    /\ (~ListGiven(options.symbols)
          => \A i \in DOMAIN TopConditions :
               NodeField(TopConditions[i]) # "symbol")
    /\ (~options.timeRange.present
          => \A i \in DOMAIN TopConditions :
               NodeField(TopConditions[i]) # "timestamp")
    /\ (whereClause.op \in {"or", "and"} => Len(whereClause.children) > 0)
    /\ \A i \in DOMAIN TopConditions :
         TopConditions[i].op \in {"or", "and"}
           => Len(TopConditions[i].children) > 0

\* An empty type array beside a symbols array: only the symbols restrict.
C20_Witness ==
  /\ Compiled
  /\ options.type = [present |-> TRUE, list |-> <<>>]
  /\ options.symbols.list = <<"BTC", "ETH">>
  /\ whereClause = Or(<<Equals("symbol", "BTC"), Equals("symbol", "ETH")>>)

\* Two manual invocations of one pipeline are between their dedup lookup and
\* the return of their marker write at the same time: both passed the dedup
\* check before either wrote the marker.
Racing(r1, r2) ==
  /\ r1 # r2
  /\ runs[r1].kind = "manual" /\ runs[r2].kind = "manual"
  /\ runs[r1].task = runs[r2].task
  /\ runs[r1].pc \in {"fetch", "store", "set"}
  /\ runs[r2].pc \in {"fetch", "store", "set"}

Raced == \E r1 \in RunIds, r2 \in RunIds : Racing(r1, r2)
RunPairs == {p \in RunIds \X RunIds : p[1] < p[2]}
PairDone(r1, r2) == runs[r1].pc = "done" /\ runs[r2].pc = "done"
PairFetchedItems(r1, r2) ==
  runs[r1].fetched = "items" /\ runs[r2].fetched = "items"
MarkerEntry(task) == [present |-> TRUE, value |-> "fetched", ttl |-> CacheTtl(task)]

C22_StepsInOrder ==
  [][\A r \in RunIds :
       /\ runs'[r].nFetch > runs[r].nFetch =>
            /\ runs[r].pc = "get" /\ runs[r].nGet = 1
            /\ ~runs'[r].hit /\ runs'[r].pc = "fetch"
            /\ runs[r].nStore = 0 /\ runs[r].nSet = 0
       /\ runs'[r].nStore > runs[r].nStore =>
            /\ runs[r].pc = "fetch" /\ runs[r].nFetch = 1
            /\ runs'[r].fetched = "items" /\ ~runs'[r].errLogged
            /\ runs[r].nSet = 0
       /\ runs'[r].nSet > runs[r].nSet =>
            /\ runs[r].pc = "store" /\ runs[r].nStore = 1
            /\ ~runs'[r].errLogged /\ runs'[r].pc = "set"
       /\ (runs[r].pc # "idle" /\ redis' # redis /\ runs'[r] # runs[r]) =>
            runs[r].pc = "set" /\ runs[r].nSet = 1]_vars

\* A scheduled run of the trends pipeline has gone through lookup, fetch and
\* store and is writing its marker.
C22_Witness ==
  \E r \in RunIds :
    /\ runs[r].task = "trends" /\ runs[r].kind = "tick" /\ runs[r].pc = "set"
    /\ runs[r].nGet = 1 /\ runs[r].nFetch = 1
    /\ runs[r].nStore = 1 /\ runs[r].nSet = 1

\* The step is a call of stop().
IsStop == lastCall'.op = "stop" /\ <<scheduledTasks, triggers, lastCall>>' #
                                    <<scheduledTasks, triggers, lastCall>>

\* The step starts a pipeline from a scheduled trigger.
TickStarts(r) ==
  runs[r].pc = "idle" /\ runs'[r].kind = "tick" /\ runs'[r].nGet = 1

\* C23: stop() does not interrupt a pipeline in flight, and once stop() has
\* ended no fire of a scheduled trigger starts a pipeline until start() is
\* called again.
C23_StopQuiesces ==
  [][/\ IsStop => runs' = runs
     /\ (lastCall.op = "stop" /\ lastCall' = lastCall) =>
          \A r \in RunIds : ~TickStarts(r)]_vars

\* C28: a failed ingestion is retried, up to config.ingestion.maxRetries
\* times, before it is given up.
C28_FailureRetried ==
  \A r \in RunIds :
    (runs[r].pc = "done" /\ runs[r].errLogged) =>
      \/ runs[r].out = "fetchErr" /\ runs[r].nFetch = 1 + IngestionMaxRetries
      \/ runs[r].out = "storeErr" /\ runs[r].nStore = 1 + IngestionMaxRetries

\* The step is a run of cleanup().
IsSweep == sweeps' # sweeps

\* C24: the admission decisions (allow or deny, and the remaining count) are
\* the same whether or not sweeps run and wherever they are interleaved: the
\* latest response equals that of a limiter given the same calls at the same
\* times and never swept.
C24_SweepTransparent == rlRes = noSweep.res

\* A sweep ran between two admitted requests of one fingerprint.
C24_Witness ==
  \E k \in Keys :
    /\ Len(rlLog[k]) >= 2 /\ sweeps # <<>>
    /\ rlLog[k][1] < sweeps[1].at
    /\ sweeps[1].at < rlLog[k][Len(rlLog[k])]
    /\ rlRes.key = k /\ rlRes.status = 200

\* C25: the sweep bounds memory: a run of the sweep at or after the expiry of
\* an entry's window removes the entry, so that the tracked keys return to
\* the fingerprints with a live window.
C25_SweepBoundsMemory ==
  [][IsSweep =>
       \A k \in Keys :
         (store[k] # NoEntry /\ now >= store[k].resetTime) =>
           store'[k] = NoEntry]_vars

\* C29 as stated: a denied call leaves the entry of its fingerprint as it
\* was: the count is not incremented and resetTime is unchanged.
C29_DeniedFrameAsStated ==
  [][\A k \in Keys :
       (IsAdmit(k) /\ rlRes'.status = 429) => store'[k] = store[k]]_vars

\* C29: a denied call that finds an entry whose window is live leaves the
\* entry unchanged, with its count at maxRequests and its resetTime as it
\* was; for maxRequests >= 1 every denied call is such a call.  With
\* maxRequests = 0 a denied call that finds no entry, or an expired one,
\* leaves an entry with count 0 and a new window.
C29_DeniedFrame ==
  [][\A k \in Keys :
       (IsAdmit(k) /\ rlRes'.status = 429) =>
         /\ (store[k] # NoEntry /\ now < store[k].resetTime) =>
              /\ store'[k] = store[k]
              /\ store[k].count >= maxRequests
              /\ maxRequests >= 1 => store[k].count = maxRequests
         /\ maxRequests >= 1 => (store[k] # NoEntry /\ now < store[k].resetTime)
         /\ (store[k] = NoEntry \/ now >= store[k].resetTime) =>
              /\ maxRequests = 0
              /\ store'[k] = [count |-> 0, resetTime |-> now + windowMs]]_vars

\* A denied call inside a live window, with the count at the limit.
C29_Witness ==
  /\ maxRequests >= 1 /\ rlRes.status = 429 /\ rlReqs >= 3
  /\ store[rlRes.key].count = maxRequests
  /\ now < store[rlRes.key].resetTime
  /\ rlRes.reset = store[rlRes.key].resetTime

\* C30: one run of the sweep removes exactly the entries with
\* now >= resetTime and count = 0 and leaves every other entry unchanged.
C30_SweepFrame ==
  [][IsSweep =>
       \A k \in Keys :
         store'[k] = IF /\ store[k] # NoEntry
                        /\ now >= store[k].resetTime
                        /\ store[k].count = 0
                       THEN NoEntry ELSE store[k]]_vars

\* The latest sweep removed an entry and kept another.
C30_Witness ==
  /\ sweeps # <<>>
  /\ \E k \in Keys, j \in Keys :
       /\ sweeps[Len(sweeps)].removed = {k}
       /\ store[k] = NoEntry
       /\ store[j] # NoEntry

\* The handlers of the routes, as opposed to the limiter.
RouteHandlers == {RouterStack[i].handler : i \in {j \in DOMAIN RouterStack :
                                                   RouterStack[j].kind = "route"}}

QueryLookupFirst ==
  /\ api.pc \in {"get", "vector", "set"} \/ (api.pc = "done" /\ api.status # 400) =>
       /\ api.nGet = 1
       /\ api.key = QueryCacheKey(Destructure(api.body))
  /\ (api.pc = "done" /\ api.status = 400) =>
       (api.nGet = 0 /\ api.nVector = 0 /\ api.nSet = 0)
  /\ (api.pc = "done" /\ api.cached) =>
       (api.status = 200 /\ api.nVector = 0 /\ api.nSet = 0)
  /\ api.pc = "get" =>
       \A b \in ValidBodies :
         Destructure(b) # Destructure(api.body) =>
           QueryCacheKey(Destructure(b)) # api.key

\* The request missed the cache and has been answered.
MissDone == api.pc = "done" /\ api.nGet = 1 /\ ~api.cached

\* C27 as stated: a query request first looks up a memoized response under a
\* key built from (query, type, limit, timeRange, symbols); a hit answers
\* from the cache without calling the store collaborator; a miss calls the
\* store collaborator exactly once and then writes the response under the
\* same key; requests that differ in a component use different keys.
C27_MemoizedAsStated ==
  /\ QueryLookupFirst
  /\ MissDone => (api.nVector = 1 /\ api.nSet = 1 /\ api.setKey = api.key)

\* C27: a query request with a non-empty query string first looks up a
\* memoized response under a key built from (query, type, limit with its
\* default 10, timeRange, symbols); a hit answers from the cache without
\* calling the store collaborator; a miss calls the store collaborator
\* exactly once and, when that call returns, writes the response once under
\* the same key and answers 200; when the call raises, nothing is written
\* and the answer is 500; filters that differ in a component use different
\* keys.  A request without a query string is answered 400 with no lookup.
C27_Memoized ==
  /\ QueryLookupFirst
  /\ MissDone =>
       /\ api.nVector = 1
       /\ api.status \in {200, 500}
       /\ api.status = 200 => (api.nSet = 1 /\ api.setKey = api.key)
       /\ api.status = 500 => api.nSet = 0
  /\ api.pc = "set" => (api.nVector = 1 /\ api.nSet = 1 /\ api.setKey = api.key)
  /\ \A k \in QueryKeys :
       memo[k].present =>
         /\ memo[k].ttl = MemoTtl
         /\ \E r \in ResultSets, q \in QueryTexts : memo[k].value = ResponseJson(r, q)

\* The second of two requests with the same filter is answered from the
\* cache with what the first one wrote.
C27_Witness ==
  /\ nApi = 2 /\ api.pc = "done" /\ api.cached /\ api.status = 200
  /\ memo[api.key].present
  /\ api.results = ParseResults(memo[api.key].value)
  /\ ~Given(api.body.limit)

\* The step is a call of reset() that removes something.
IsReset ==
  /\ rlReqs' = rlReqs /\ sweeps' = sweeps /\ now' = now /\ rlStats' = rlStats
  /\ store' # store

Stored(st) == {k \in Keys : st[k] # NoEntry}

\* C31: getStats reports totalKeys as the number of stored entries,
\* activeEntries as the number of entries with now < resetTime (so
\* activeEntries <= totalKeys) and the window and the cap as configured;
\* reset() removes every entry, and the next request of a fingerprint is
\* then treated as its first (admitted with remaining = N - 1 when N >= 1).
C31_Introspection ==
  [][/\ rlStats' # rlStats =>
          /\ rlStats'.totalKeys = Cardinality(Stored(store))
          /\ rlStats'.activeEntries =
               Cardinality({k \in Stored(store) : now < store[k].resetTime})
          /\ rlStats'.activeEntries <= rlStats'.totalKeys
          /\ rlStats'.windowMs = windowMs
          /\ rlStats'.maxRequests = maxRequests
          /\ store' = store
     /\ IsReset => Stored(store') = {}
     /\ \A k \in Keys :
          (IsAdmit(k) /\ store[k] = NoEntry /\ maxRequests >= 1) =>
             /\ rlRes'.status = 200
             /\ rlRes'.remaining = maxRequests - 1
             /\ store'[k] = [count |-> 1, resetTime |-> now + windowMs]]_vars

\* getStats saw two entries, one of them expired; the store was then reset
\* and a fingerprint's next request was admitted as its first.
C31_Witness ==
  /\ rlStats.totalKeys = 2 /\ rlStats.activeEntries = 1
  /\ \E k \in Keys :
       /\ store[k] # NoEntry /\ store[k].count = 1
       /\ rlLog[k] = <<now>>
       /\ rlRes.key = k /\ rlRes.remaining = maxRequests - 1
       /\ \A j \in Keys \ {k} : store[j] = NoEntry

\* The store that holds the entry of key and nothing else.
OnlyEntry(key) == [j \in Keys |-> IF j = key THEN store[key] ELSE NoEntry]

\* C32: a middleware call for one fingerprint leaves the entries of all other
\* fingerprints unchanged, and its decision and the new entry depend only on
\* that fingerprint's own entry, the current time, the window and the cap.
C32_AdmitFrame ==
  [][\A k \in Keys :
       IsAdmit(k) =>
         LET alone == Middleware(OnlyEntry(k), k, now, windowMs, maxRequests)
         IN /\ \A j \in Keys \ {k} : store'[j] = store[j]
            /\ rlRes' = alone.res
            /\ store'[k] = alone.store[k]]_vars

\* A fingerprint was denied while another one, with an expired entry of a
\* different count, stayed as it was.
C32_Witness ==
  \E k \in Keys, j \in Keys :
    /\ k # j /\ rlRes.key = k /\ rlRes.status = 429
    /\ store[j] # NoEntry /\ store[j].count # store[k].count
    /\ now >= store[j].resetTime

\* Monday to Friday, from 9:30 up to but not including 16:00.
MarketOpen(c) ==
  /\ c.day \in 1..5
  /\ c.hour * 60 + c.minute >= 9 * 60 + 30
  /\ c.hour * 60 + c.minute < 16 * 60

\* C33: the stocks gate is open exactly during market hours, Monday to
\* Friday from 9:30 to 16:00: a scheduled stocks tick runs the pipeline body
\* exactly when its clock reading lies inside them.
C33_MarketHours ==
  [][\A r \in RunIds :
       (runs[r].pc = "idle" /\ runs'[r].task = "stocks" /\ runs'[r].kind = "tick") =>
          (runs'[r].nGet = 1 <=> MarketOpen(tickClock'))]_vars

\* Every task name is registered with an active trigger of its own.
AllSixActive ==
  \A n \in TaskNames :
    /\ scheduledTasks[n] \in DOMAIN triggers
    /\ triggers[scheduledTasks[n]] = [name |-> n, status |-> "scheduled"]

\* A scheduled invocation has ended with a logged failure.
TickFailed(r) ==
  runs[r].kind = "tick" /\ runs[r].pc = "done" /\ runs[r].errLogged

\* C34: a pipeline failure during a scheduled tick never stops the scheduler
\* or another task: the failing step rejects nothing, leaves the registry,
\* every trigger and every other invocation as they were; afterwards all six
\* tasks are registered with their triggers active, and any trigger can fire
\* again as soon as an invocation slot is free.
C34_FailureIsolated ==
  /\ [][\A r \in RunIds :
          (IsFailStep(r) /\ runs[r].kind = "tick") =>
             /\ ~runs'[r].thrown /\ runs'[r].errLogged
             /\ <<scheduledTasks, triggers, nStarts>>' = <<scheduledTasks, triggers, nStarts>>
             /\ \A j \in RunIds \ {r} : runs'[j] = runs[j]]_vars
  /\ [](\A r \in RunIds :
          TickFailed(r) =>
             /\ AllSixActive
             /\ ~runs[r].thrown
             /\ FreeSlots(MaxRuns) # {} =>
                  \A id \in DOMAIN triggers : ENABLED TickFire(id, MaxRuns))

\* A scheduled rates invocation failed, and the next invocation, a tick of
\* the same task, is under way.
C34_Witness ==
  /\ runs[1].task = "rates" /\ TickFailed(1) /\ runs[1].out = "fetchErr"
  /\ runs[2].task = "rates" /\ runs[2].kind = "tick" /\ runs[2].pc = "fetch"
  /\ AllSixActive

\* The step is the return of an empty list from the fetch of invocation r.
IsEmptyFetch(r) == runs[r].pc = "fetch" /\ runs'[r].fetched = "empty"

\* C35: when the fetch of a pipeline returns an empty list, the store
\* collaborator is not called and no marker is written: the invocation ends
\* with the cache as it was, so that the next invocation, finding no marker,
\* fetches again.
C35_EmptyFetch ==
  /\ [][\A r \in RunIds :
          /\ IsEmptyFetch(r) =>
               /\ runs'[r].pc = "done" /\ runs'[r].out = "empty"
               /\ runs'[r].nStore = 0 /\ runs'[r].nSet = 0
               /\ ~runs'[r].errLogged /\ ~runs'[r].thrown
               /\ redis' = redis
          /\ (IsDedupStep(r) /\ ~redis[CacheKey(runs[r].task)].present) =>
               (runs'[r].pc = "fetch" /\ runs'[r].nFetch = 1)]_vars
  /\ [](\A r \in RunIds :
          runs[r].fetched = "empty" =>
            (runs[r].pc = "done" /\ runs[r].nStore = 0 /\ runs[r].nSet = 0))

\* A stocks invocation fetched nothing; no marker exists and the next stocks
\* invocation has called fetch again.
C35_Witness ==
  /\ runs[1].task = "stocks" /\ runs[1].out = "empty" /\ runs[1].nStore = 0
  /\ runs[2].task = "stocks" /\ runs[2].pc = "fetch" /\ runs[2].nFetch = 1
  /\ runs[2].sent
  /\ ~redis[CacheKey("stocks")].present

\* C36 as stated: while the marker of a source is unexpired every invocation
\* of its pipeline performs no fetch; once it has expired the next invocation
\* fetches; the marker of one source never affects another.
C36_MarkerSuppressesAsStated ==
  [][\A r \in RunIds :
       IsDedupStep(r) =>
         IF redis[CacheKey(runs[r].task)].present
           THEN runs'[r].pc = "done" /\ runs'[r].nFetch = 0
           ELSE runs'[r].pc = "fetch" /\ runs'[r].nFetch = 1]_vars

\* C36: a marker suppresses work only for its ttl and only for its own
\* source.  An invocation skips the fetch only when the marker of its own
\* source is in the cache and the lookup was sent to it; when the marker is
\* absent (never written, or expired) or the cache was disconnected at the
\* lookup, the invocation fetches; the outcome of the lookup is a function of
\* the entry under the source's own key.  A marker carries the ttl configured
\* for its source and exists only if an invocation of that source wrote it.
C36_MarkerSuppresses ==
  /\ [][\A r \in RunIds :
          IsDedupStep(r) =>
            LET own == redis[CacheKey(runs[r].task)]
            IN /\ runs'[r] \in {AfterGet(runs[r], CacheGet(runs[r].sent, e, own)) :
                                  e \in BOOLEAN}
               /\ runs'[r].hit =>
                    /\ own.present /\ runs[r].sent
                    /\ runs'[r].pc = "done" /\ runs'[r].nFetch = 0
               /\ (~own.present \/ ~runs[r].sent) =>
                    (runs'[r].pc = "fetch" /\ runs'[r].nFetch = 1)]_vars
  /\ [](\A t \in TaskNames :
          redis[CacheKey(t)].present =>
            /\ redis[CacheKey(t)].ttl = CacheTtl(t)
            /\ redis[CacheKey(t)].value = "fetched"
            /\ \E r \in RunIds : runs[r].task = t /\ runs[r].nSet = 1)

\* The marker of the news pipeline is in the cache, written by one invocation,
\* and the next news invocation has skipped its fetch.
C36_Witness ==
  /\ runs[1].task = "news" /\ runs[1].out = "stored"
  /\ redis[CacheKey("news")].present
  /\ runs[2].task = "news" /\ runs[2].out = "skipped" /\ runs[2].hit
  /\ runs[2].nFetch = 0

\* C37: for a cap N >= 1 every stored entry has 1 <= count <= N in every
\* reachable state: an entry is created, or reset to zero, only inside a
\* middleware call that then increments it; hence no sweep ever finds an
\* entry that satisfies its removal condition.
C37_CountAtLeastOne ==
  maxRequests >= 1 =>
    /\ \A k \in Keys :
         store[k] # NoEntry =>
           (1 <= store[k].count /\ store[k].count <= maxRequests)
    /\ \A i \in DOMAIN sweeps : sweeps[i].removed = {}
    /\ CleanupStore(store, now) = store

\* With a cap of at least one, a sweep has run at or after the expiry of an
\* entry that is still stored.
C37_Witness ==
  /\ maxRequests >= 1 /\ sweeps # <<>>
  /\ \E k \in Keys :
       /\ store[k] # NoEntry
       /\ sweeps[Len(sweeps)].at >= store[k].resetTime
       /\ store[k].count = maxRequests

\* C38: after any sequence of start() and stop() calls each task name has at
\* most one active trigger and every active trigger is recorded in the
\* registry, so that a following stop() leaves no trigger active.
C38_OneTriggerPerTask ==
  /\ \A i \in ActiveTriggers, j \in ActiveTriggers :
       triggers[i].name = triggers[j].name => i = j
  /\ \A i \in ActiveTriggers : scheduledTasks[triggers[i].name] = i

\* C39: while the cache is disconnected dedup is disabled and ingestion goes
\* on: an invocation whose lookup finds the cache disconnected calls fetch,
\* whatever the cache holds; fetched items are passed to the store; a marker
\* write that finds the cache disconnected leaves the cache as it was; and no
\* invocation raises.
C39_DisconnectedIngests ==
  /\ [][\A r \in RunIds :
          /\ (IsDedupStep(r) /\ ~runs[r].sent) =>
               (runs'[r].pc = "fetch" /\ runs'[r].nFetch = 1 /\ ~runs'[r].hit)
          /\ (runs[r].pc = "fetch" /\ runs'[r].fetched = "items") =>
               (runs'[r].pc = "store" /\ runs'[r].nStore = 1)
          /\ (runs[r].pc = "set" /\ runs'[r].pc = "done" /\ ~runs[r].sent) =>
               (redis' = redis /\ runs'[r].out = "stored")]_vars
  /\ [](\A r \in RunIds : ~runs[r].thrown)

\* With the cache disconnected and no marker, two invocations of the news
\* pipeline have both fetched and stored.
C39_Witness ==
  /\ ~isConnected
  /\ \A r \in RunIds :
       /\ runs[r].task = "news" /\ runs[r].out = "stored"
       /\ runs[r].nFetch = 1 /\ runs[r].nStore = 1 /\ ~runs[r].sent
  /\ \A k \in CacheKeys : ~redis[k].present

\* The entry under the key of the request in flight is a payload that fails
\* to parse.
CorruptHit == memo[api.key].present /\ ~Parses(memo[api.key].value)

\* The step is the return of the lookup of the request in flight.
IsQueryGetStep == api.pc = "get" /\ api'.pc # "get"

\* C40: the query handler does not recover from a corrupt memoized payload:
\* when the lookup returns a value that fails to parse, the request ends with
\* status 500, the store collaborator is not called, nothing is written and
\* the corrupt entry stays in the cache; a 500 at the lookup has no other
\* cause.
C40_CorruptNotRecovered ==
  [][IsQueryGetStep =>
       /\ (CorruptHit /\ api.sent /\ ~api'.getErr) =>
            /\ api'.pc = "done" /\ api'.status = 500 /\ ~api'.cached
            /\ api'.nVector = 0 /\ api'.nSet = 0
            /\ memo' = memo
       /\ api'.status = 500 => (CorruptHit /\ api.sent /\ ~api'.getErr)
       /\ api'.cached => Parses(memo[api.key].value)]_vars

\* The second of two identical queries has failed on the corrupt payload,
\* which is still in the cache.
C40_Witness ==
  /\ nApi = 2 /\ api.pc = "done" /\ api.status = 500
  /\ api.nGet = 1 /\ api.nVector = 0 /\ api.nSet = 0
  /\ CorruptHit /\ memo[api.key].ttl = 0


====
